---- MODULE Spec2Model ----
(***************************************************************************)
(* gluetun-switcher: the authentication service (auth/auth.service.js),    *)
(* the admin bootstrap at process start and the Express middleware chain   *)
(* of server.js that gates every request.                                  *)
(*                                                                         *)
(* A password is a sequence of one-character strings.  An Argon2id hash is *)
(* the pair <<"argon2id", password>>: verifying it against a candidate is  *)
(* the comparison of the hashed password with the candidate (the salt is   *)
(* left out).  Time is a counter of lock-time units.                       *)
(*                                                                         *)
(* Spec is the authentication service behind the middleware chain;         *)
(* PolicySpec is validatePasswordPolicy under every configuration;         *)
(* ActSpec is the activation workflow (activate-config, split at each      *)
(* await, and current-config-info) over a small disk; ResolverSpec is the  *)
(* availability test of the locations endpoint and LocationsSpec its       *)
(* handler; HistorySpec is the operation history (addToHistory of the page *)
(* and /api/operation-history); FaultSpec is login and change-password     *)
(* with users.json failing; ConfigSpec is security.config.js and the       *)
(* session cookie; RaceSpec is two calls of auth.service.js split at their *)
(* awaits; ActFairSpec is ActSpec with every restart call ending; ConcSpec *)
(* is two activate-config requests at once; ProvisionSpec is authenticate  *)
(* on a record with or without a failedAttempts field; SessionSpec is      *)
(* change-password under a session of either of two accounts.              *)
(***************************************************************************)
EXTENDS Integers, Sequences, FiniteSets, TLC

VARIABLES
  store,     \* config/security/users.json: username -> account record
  now,       \* Date.now()
  server,    \* the node process: "stopped", "listening" or "crashed"
  bootPc,    \* position of the un-awaited ensureAdminPasswordInitialized() call
  bootData,  \* the data that call loaded (its local `data`), or Null
  session,   \* req.session of the one browser: [user, mustChangePassword]
  resp,      \* the last HTTP exchange: the request, what it met, the response
  streak,    \* history: per account, consecutive wrong-password calls (see Login)
  call,      \* a call of a pure function: its arguments and, once made, its result
  env,       \* process.env: WIREGUARD_DIR and CONTAINER_TO_RESTART
  disk,      \* the file system: path -> regular file with its bytes, or directory
  act,       \* the activate-config requests: position, body, restarts, response
  info,      \* the last response of current-config-info
  browser,   \* wireguard-script.js: operationHistory and the appends made to it
  hres       \* the last exchange of /api/operation-history

\* the variables the authentication service and the middleware chain leave alone
others == <<call, env, disk, act, info, browser, hres>>

vars == <<store, now, server, bootPc, bootData, session, resp, streak, others>>

----------------------------------------------------------------------------
(* Bounds of the model *)

MaxTime == 2
LockTime == 1
MaxAttempts == 2

----------------------------------------------------------------------------
(* Values *)

\* null, for passwordHash and lockedUntil: a set lockedUntil is <<timestamp>>
Null == <<>>
NoUser == "nouser"

AdminUsername == "admin"
Usernames == {"admin"}
UnknownUsername == "mallory"
LoginNames == Usernames \cup {UnknownUsername}

DefaultPassword == <<"s", "w", "i", "t", "c", "h", "e", "r">>
GoodPassword == <<"S", "t", "r", "0", "n", "g", "!", "P", "a", "s", "s", "w", "d">>
EmptyPassword == <<>>
Passwords == {EmptyPassword, DefaultPassword, GoodPassword}

----------------------------------------------------------------------------
(* security.config.js *)

MinLength == 12

UpperChars == {"A", "B", "C", "D", "E", "F", "G", "H", "I", "J", "K", "L", "M",
               "N", "O", "P", "Q", "R", "S", "T", "U", "V", "W", "X", "Y", "Z"}
LowerChars == {"a", "b", "c", "d", "e", "f", "g", "h", "i", "j", "k", "l", "m",
               "n", "o", "p", "q", "r", "s", "t", "u", "v", "w", "x", "y", "z"}
DigitChars == {"0", "1", "2", "3", "4", "5", "6", "7", "8", "9"}
SpecialChars == {"!", "@", "#", "$", "%", "^", "&", "*", "(", ")", ",", ".",
                 "?", "\"", ":", "{", "}", "|", "<", ">"}

passwordPolicy ==
  [minLength |-> MinLength,
   requireUppercase |-> TRUE,
   requireLowercase |-> TRUE,
   requireDigit |-> TRUE,
   requireSpecial |-> TRUE,
   maxAttempts |-> MaxAttempts,
   lockTimeSeconds |-> LockTime]

HasChar(password, class) == \E i \in 1..Len(password) : password[i] \in class

\* Faulty variant of validatePolicy: a password of exactly minLength is refused.
validatePolicyOffByOne(policy, password) ==
  IF Len(password) <= policy.minLength THEN FALSE
  ELSE IF policy.requireUppercase /\ ~HasChar(password, UpperChars) THEN FALSE
  ELSE IF policy.requireLowercase /\ ~HasChar(password, LowerChars) THEN FALSE
  ELSE IF policy.requireDigit /\ ~HasChar(password, DigitChars) THEN FALSE
  ELSE IF policy.requireSpecial /\ ~HasChar(password, SpecialChars) THEN FALSE
  ELSE TRUE

\* the body of validatePasswordPolicy, for the policy the configuration holds
validatePolicy(policy, password) ==
  IF Len(password) < policy.minLength THEN FALSE
  ELSE IF policy.requireUppercase /\ ~HasChar(password, UpperChars) THEN FALSE
  ELSE IF policy.requireLowercase /\ ~HasChar(password, LowerChars) THEN FALSE
  ELSE IF policy.requireDigit /\ ~HasChar(password, DigitChars) THEN FALSE
  ELSE IF policy.requireSpecial /\ ~HasChar(password, SpecialChars) THEN FALSE
  ELSE TRUE

\* validatePasswordPolicy(password): `const policy = security.passwordPolicy`
validatePasswordPolicy(password) == validatePolicy(passwordPolicy, password)

----------------------------------------------------------------------------
(* argon2 *)

argon2Hash(password) == <<"argon2id", password>>

argon2Verify(hash, password) == hash[1] = "argon2id" /\ hash[2] = password

----------------------------------------------------------------------------
(* auth.service.js *)

\* whether data.users.find(u => u.username === username) finds a record
userExists(data, username) == username \in DOMAIN data

\* user.lockedUntil && Date.now() < user.lockedUntil
isLocked(user, t) == user.lockedUntil # Null /\ t < user.lockedUntil[1]

\* Faulty variant of onMismatch: `>` for `>=`, the lock comes one attempt late.
onMismatchLate(user, t) ==
  LET n == user.failedAttempts + 1 IN
  IF n > passwordPolicy.maxAttempts
  THEN [user EXCEPT !.failedAttempts = 0,
                    !.lockedUntil = <<t + passwordPolicy.lockTimeSeconds>>]
  ELSE [user EXCEPT !.failedAttempts = n]

\* the !ok branch of authenticate: the account record it saves
onMismatch(user, t) ==
  LET n == user.failedAttempts + 1 IN
  IF n >= passwordPolicy.maxAttempts
  THEN [user EXCEPT !.failedAttempts = 0,
                    !.lockedUntil = <<t + passwordPolicy.lockTimeSeconds>>]
  ELSE [user EXCEPT !.failedAttempts = n]

\* Faulty variant of onMatch: the counter is reset and the expired lock is left set.
onMatchKeepsLock(user) == [user EXCEPT !.failedAttempts = 0]

\* the ok branch of authenticate: the account record it saves
onMatch(user) == [user EXCEPT !.failedAttempts = 0, !.lockedUntil = Null]

\* the four return statements that precede and follow the verification
unknownUserResult == [success |-> FALSE]

noPasswordResult == [success |-> TRUE, mustChangePassword |-> TRUE, noPassword |-> TRUE]

lockedResult == [success |-> FALSE, locked |-> TRUE]

mismatchResult == [success |-> FALSE]

\* Faulty variant of authenticate: the lock is looked at before the missing hash.
authenticateLockFirst(data, username, password, t) ==
  IF ~userExists(data, username)
  THEN [result |-> unknownUserResult, saved |-> FALSE, data |-> data]
  ELSE LET user == data[username] IN
    IF isLocked(user, t)
    THEN [result |-> lockedResult, saved |-> FALSE, data |-> data]
    ELSE IF user.passwordHash = Null
    THEN [result |-> noPasswordResult, saved |-> FALSE, data |-> data]
    ELSE IF ~argon2Verify(user.passwordHash, password)
    THEN [result |-> mismatchResult, saved |-> TRUE,
          data |-> [data EXCEPT ![username] = onMismatch(user, t)]]
    ELSE [result |-> [success |-> TRUE,
                      mustChangePassword |-> user.mustChangePassword],
          saved |-> TRUE,
          data |-> [data EXCEPT ![username] = onMatch(user)]]

\* Faulty variant of authenticate: the wrong password that sets the lock reports it.
authenticateReportsLock(data, username, password, t) ==
  IF ~userExists(data, username)
  THEN [result |-> unknownUserResult, saved |-> FALSE, data |-> data]
  ELSE LET user == data[username] IN
    IF user.passwordHash = Null
    THEN [result |-> noPasswordResult, saved |-> FALSE, data |-> data]
    ELSE IF isLocked(user, t)
    THEN [result |-> lockedResult, saved |-> FALSE, data |-> data]
    ELSE IF ~argon2Verify(user.passwordHash, password)
    THEN [result |-> IF onMismatch(user, t).lockedUntil # user.lockedUntil
                     THEN lockedResult ELSE mismatchResult,
          saved |-> TRUE,
          data |-> [data EXCEPT ![username] = onMismatch(user, t)]]
    ELSE [result |-> [success |-> TRUE,
                      mustChangePassword |-> user.mustChangePassword],
          saved |-> TRUE,
          data |-> [data EXCEPT ![username] = onMatch(user)]]

\* Faulty variant of authenticate: an attempt on a locked account is counted
\* and saved.
authenticateCountsLocked(data, username, password, t) ==
  IF ~userExists(data, username)
  THEN [result |-> unknownUserResult, saved |-> FALSE, data |-> data]
  ELSE LET user == data[username] IN
    IF user.passwordHash = Null
    THEN [result |-> noPasswordResult, saved |-> FALSE, data |-> data]
    ELSE IF isLocked(user, t)
    THEN [result |-> lockedResult, saved |-> TRUE,
          data |-> [data EXCEPT ![username] = onMismatch(user, t)]]
    ELSE IF ~argon2Verify(user.passwordHash, password)
    THEN [result |-> mismatchResult, saved |-> TRUE,
          data |-> [data EXCEPT ![username] = onMismatch(user, t)]]
    ELSE [result |-> [success |-> TRUE,
                      mustChangePassword |-> user.mustChangePassword],
          saved |-> TRUE,
          data |-> [data EXCEPT ![username] = onMatch(user)]]

\* authenticate(username, password) at time t on the loaded data: the object it
\* returns, whether it called saveUsers, and the data it then wrote.
authenticate(data, username, password, t) ==
  IF ~userExists(data, username)
  THEN [result |-> unknownUserResult, saved |-> FALSE, data |-> data]
  ELSE LET user == data[username] IN
    IF user.passwordHash = Null
    THEN [result |-> noPasswordResult, saved |-> FALSE, data |-> data]
    ELSE IF isLocked(user, t)
    THEN [result |-> lockedResult, saved |-> FALSE, data |-> data]
    ELSE IF ~argon2Verify(user.passwordHash, password)
    THEN [result |-> mismatchResult, saved |-> TRUE,
          data |-> [data EXCEPT ![username] = onMismatch(user, t)]]
    ELSE [result |-> [success |-> TRUE,
                      mustChangePassword |-> user.mustChangePassword],
          saved |-> TRUE,
          data |-> [data EXCEPT ![username] = onMatch(user)]]

\* Faulty variant of changePassword: the policy is not consulted.
changePasswordNoPolicy(data, username, newPassword) ==
  IF ~userExists(data, username)
  THEN [threw |-> TRUE, error |-> "TypeError", data |-> data]
  ELSE [threw |-> FALSE, error |-> "",
        data |-> [data EXCEPT ![username].passwordHash = argon2Hash(newPassword),
                              ![username].mustChangePassword = FALSE]]

\* Faulty variant of changePassword: the new password also clears the counter
\* and the lock.
changePasswordUnlocks(data, username, newPassword) ==
  IF ~validatePasswordPolicy(newPassword)
  THEN [threw |-> TRUE, error |-> "Password policy violation", data |-> data]
  ELSE IF ~userExists(data, username)
  THEN [threw |-> TRUE, error |-> "TypeError", data |-> data]
  ELSE [threw |-> FALSE, error |-> "",
        data |-> [data EXCEPT ![username].passwordHash = argon2Hash(newPassword),
                              ![username].mustChangePassword = FALSE,
                              ![username].failedAttempts = 0,
                              ![username].lockedUntil = Null]]

\* changePassword(username, newPassword) on the loaded data: whether it threw
\* (a policy violation, or no such account), and the data it then wrote.
changePassword(data, username, newPassword) ==
  IF ~validatePasswordPolicy(newPassword)
  THEN [threw |-> TRUE, error |-> "Password policy violation", data |-> data]
  ELSE IF ~userExists(data, username)
  THEN [threw |-> TRUE, error |-> "TypeError", data |-> data]
  ELSE [threw |-> FALSE, error |-> "",
        data |-> [data EXCEPT ![username].passwordHash = argon2Hash(newPassword),
                              ![username].mustChangePassword = FALSE]]

\* Faulty variant of bootstrapStep: the test of the existing hash is left out.
bootstrapStepAlways(data) ==
  IF ~userExists(data, AdminUsername) THEN "throw" ELSE "hash"

\* ensureAdminPasswordInitialized after loadUsers: what the call does next
bootstrapStep(data) ==
  IF ~userExists(data, AdminUsername) THEN "throw"
  ELSE IF data[AdminUsername].passwordHash = Null THEN "hash"
  ELSE "return"

\* Faulty variant of bootstrapData: the hash is set and the flag is not.
bootstrapDataNoFlag(data) ==
  [data EXCEPT ![AdminUsername].passwordHash = argon2Hash(DefaultPassword)]

\* the data ensureAdminPasswordInitialized hands to saveUsers
bootstrapData(data) ==
  [data EXCEPT ![AdminUsername].passwordHash = argon2Hash(DefaultPassword),
               ![AdminUsername].mustChangePassword = TRUE]

----------------------------------------------------------------------------
(* server.js: the middleware chain *)

\* routes registered ahead of express.static and of the auth middleware
RoutesBeforeAuth ==
  {<<"GET", "/api/auth/me">>, <<"POST", "/api/auth/logout">>,
   <<"POST", "/api/auth/login">>, <<"POST", "/api/auth/change-password">>,
   <<"GET", "/api/auth/policy">>, <<"GET", "/api/version">>,
   <<"GET", "/api/config/map">>, <<"GET", "/api/geolocation">>}

\* routes registered after the auth middleware
RoutesAfterAuth ==
  {<<"GET", "/api/locations">>, <<"POST", "/api/activate-config">>,
   <<"GET", "/api/operation-history">>, <<"GET", "/login">>, <<"GET", "/">>}

\* files of the application directory, which express.static(__dirname) serves
StaticFiles ==
  {"/login.html", "/gluetun-switcher.html", "/change-password.html",
   "/config/security/users.json"}

\* the paths the auth middleware lets through without a session
PublicPaths ==
  {"/api/auth/login", "/api/auth/change-password", "/api/auth/policy",
   "/api/version", "/login"}

Handler(path) == [kind |-> "handler", target |-> path]
File(path) == [kind |-> "file", target |-> path]
Redirect(location) == [kind |-> "redirect", target |-> location]
NotFound == [kind |-> "notfound", target |-> ""]
Next_ == [kind |-> "next", target |-> ""]

\* "Protect sensitive HTML files from direct static access"
htmlProtect(sess, path) ==
  IF path \in {"/change-password.html", "/gluetun-switcher.html"}
     /\ sess.user = NoUser
  THEN Redirect("/login")
  ELSE Next_

\* express.static(__dirname): a GET of an existing file is answered with it
serveStatic(method, path) ==
  IF method = "GET" /\ path \in StaticFiles THEN File(path) ELSE Next_

\* "Protect API routes and pages below"; of the modelled paths none has one of
\* the startsWith prefixes without being equal to it
authMiddleware(sess, path) ==
  IF path = "/api/auth/login" THEN Next_
  ELSE IF path = "/api/auth/change-password" THEN Next_
  ELSE IF path = "/api/auth/policy" THEN Next_
  ELSE IF path = "/api/version" THEN Next_
  ELSE IF path = "/login" THEN Next_
  ELSE IF path = "/change-password.html"
  THEN IF sess.user # NoUser /\ sess.mustChangePassword
       THEN Next_ ELSE Redirect("/login")
  ELSE IF sess.user = NoUser THEN Redirect("/login")
  ELSE Next_

\* what follows the auth middleware: the routes, then the files they send
afterAuth(method, path) ==
  IF <<method, path>> = <<"GET", "/login">> THEN File("/login.html")
  ELSE IF <<method, path>> = <<"GET", "/">> THEN File("/gluetun-switcher.html")
  ELSE IF <<method, path>> \in RoutesAfterAuth THEN Handler(path)
  ELSE IF serveStatic(method, path) # Next_ THEN serveStatic(method, path)
  ELSE NotFound

\* the chain in registration order: who answers the request
dispatch(sess, method, path) ==
  IF <<method, path>> \in RoutesBeforeAuth THEN Handler(path)
  ELSE IF htmlProtect(sess, path) # Next_ THEN htmlProtect(sess, path)
  ELSE IF serveStatic(method, path) # Next_ THEN serveStatic(method, path)
  ELSE IF authMiddleware(sess, path) # Next_ THEN authMiddleware(sess, path)
  ELSE afterAuth(method, path)

----------------------------------------------------------------------------
(* server.js: the handlers *)

\* POST /api/auth/login: status and body for what authenticate returned
loginResponse(result) ==
  IF ~result.success
  THEN [status |-> 401,
        body |-> [success |-> FALSE,
                  locked |-> IF "locked" \in DOMAIN result
                             THEN result.locked ELSE FALSE]]
  ELSE [status |-> 200,
        body |-> [success |-> TRUE,
                  mustChangePassword |-> result.mustChangePassword,
                  noPassword |-> IF "noPassword" \in DOMAIN result
                                 THEN result.noPassword ELSE FALSE]]

\* Faulty variant of loginSession: the user is set before the result is tested.
loginSessionEarly(sess, username, result) ==
  IF ~result.success THEN [sess EXCEPT !.user = username]
  ELSE [user |-> username, mustChangePassword |-> result.mustChangePassword]

\* POST /api/auth/login: the session it leaves
loginSession(sess, username, result) ==
  IF ~result.success THEN sess
  ELSE [user |-> username, mustChangePassword |-> result.mustChangePassword]

\* a session with no user: a new browser session, or one destroyed by logout
freshSession == [user |-> NoUser, mustChangePassword |-> FALSE]

\* the statuses a handler that is not modelled further can answer with
handlerStatuses(path) ==
  IF path \in {"/api/auth/policy", "/api/version", "/api/config/map"} THEN {200}
  ELSE IF path = "/api/activate-config" THEN {200, 400, 500}
  ELSE {200, 500}

\* the statuses of an answer of the chain
statuses(answer) ==
  IF answer.kind = "handler" THEN handlerStatuses(answer.target)
  ELSE IF answer.kind = "file" THEN {200}
  ELSE IF answer.kind = "redirect" THEN {302}
  ELSE {404}

\* the requests of the model that have no action of their own
Requests ==
  {<<"GET", "/api/auth/policy">>, <<"GET", "/api/config/map">>,
   <<"GET", "/api/geolocation">>,
   <<"GET", "/api/locations">>, <<"POST", "/api/activate-config">>,
   <<"GET", "/login">>, <<"GET", "/">>,
   <<"GET", "/gluetun-switcher.html">>, <<"GET", "/change-password.html">>,
   <<"GET", "/config/security/users.json">>, <<"GET", "/nope">>}

\* One exchange: the request (method, path, input: the body's fields), what it
\* met (at: Date.now(); sess: req.session on arrival; loaded: the account record
\* the handler read from the store, <<>> when it read none), and the response
\* (kind and target of the answer, status, body).
Exchange(method, path, input, t, sess, loaded, answer, status, body) ==
  [method |-> method, path |-> path, input |-> input,
   at |-> t, sess |-> sess, loaded |-> loaded,
   kind |-> answer.kind, target |-> answer.target,
   status |-> status, body |-> body]

NoExchange == Exchange("", "", <<>>, 0, freshSession, <<>>, NotFound, 0, "")

----------------------------------------------------------------------------
(* Strings, paths and files of the activation workflow *)

\* A string is a sequence of one-character strings; a path is the sequence of
\* its segments, so that path.join(dir, name) appends a segment and
\* path.basename(path) is the last one.
FrConf == <<"f", "r", ".", "c", "o", "n", "f">>
JpConf == <<"j", "p", ".", "c", "o", "n", "f">>
Wg0Conf == <<"w", "g", "0", ".", "c", "o", "n", "f">>
NotesTxt == <<"n", ".", "t", "x", "t">>
UsersJson == <<"u", "s", "e", "r", "s", ".", "j", "s", "o", "n">>
StateJson == <<"s", "t", "a", "t", "e", ".", "j", "s", "o", "n">>
GoneConf == <<"g", "o", "n", "e", ".", "c", "o", "n", "f">>
DotConf == <<".", "c", "o", "n", "f">>

\* the directory WIREGUARD_DIR names, and __dirname/config
WgDir == <<<<"w", "g">>>>
ConfigDir == <<<<"a", "p", "p">>, <<"c", "o", "n", "f", "i", "g">>>>

pathJoin(dir, name) == Append(dir, name)
pathBasename(path) == path[Len(path)]

statePath == pathJoin(ConfigDir, StateJson)
usersPath ==
  pathJoin(pathJoin(ConfigDir, <<"s", "e", "c", "u", "r", "i", "t", "y">>), UsersJson)

\* a regular file with its bytes, and a directory
RegularFile(content) == [kind |-> "file", content |-> content]
Directory == [kind |-> "dir", content |-> <<>>]

\* the bytes of the files: for a tunnel configuration the endpoint it names, for
\* state.json the object it was written from
Bytes(of) == <<"bytes", of>>
StateBytes(name) == <<"activeConfigName", name>>
Truncated == <<"bytes">>

\* JSON.parse(stateData).activeConfigName; a file that is not JSON makes
\* JSON.parse throw, bytes without the field give undefined
parseState(content) ==
  IF Len(content) = 2 /\ content[1] = "activeConfigName"
  THEN [threw |-> FALSE, activeConfigName |-> content[2]]
  ELSE [threw |-> TRUE, activeConfigName |-> <<>>]

\* the files the activation workflow never writes
FixedFiles ==
  [p \in {WgDir, pathJoin(WgDir, FrConf), pathJoin(WgDir, JpConf),
          pathJoin(WgDir, NotesTxt), usersPath} |->
     IF p = WgDir THEN Directory
     ELSE IF p = pathJoin(WgDir, FrConf) THEN RegularFile(Bytes("fr"))
     ELSE IF p = pathJoin(WgDir, JpConf) THEN RegularFile(Bytes("jp"))
     ELSE IF p = pathJoin(WgDir, NotesTxt) THEN RegularFile(Bytes("notes"))
     ELSE RegularFile(Bytes("users"))]

\* f with path p set to node
WriteFile(f, p, node) ==
  [q \in DOMAIN f \cup {p} |-> IF q = p THEN node ELSE f[q]]

\* fs.stat(path): the path exists
exists(f, p) == p \in DOMAIN f
isFile(f, p) == exists(f, p) /\ f[p].kind = "file"

\* the request bodies of activate-config: no sourcePath, the empty string, the
\* two tunnel configurations, a file of the directory that is none, the
\* credential store, the directory itself, a path that names nothing, and the
\* active slot
NoBody == <<>>
SourcePaths ==
  {<<>>, pathJoin(WgDir, FrConf), pathJoin(WgDir, JpConf),
   pathJoin(WgDir, NotesTxt), usersPath, WgDir, pathJoin(WgDir, GoneConf),
   pathJoin(WgDir, Wg0Conf)}
Bodies == {NoBody} \cup {[sourcePath |-> p] : p \in SourcePaths}

\* `!sourcePath`: the body has no sourcePath, or the empty string
noSourcePath(body) ==
  IF "sourcePath" \in DOMAIN body THEN body.sourcePath = <<>> ELSE TRUE

----------------------------------------------------------------------------
(* CONTAINER_TO_RESTART: split(',') and trim() *)

\* containersToRestart.split(','): the pieces between the commas
RECURSIVE splitFrom(_, _, _)
splitFrom(s, i, piece) ==
  IF i > Len(s) THEN <<piece>>
  ELSE IF s[i] = "," THEN <<piece>> \o splitFrom(s, i + 1, <<>>)
  ELSE splitFrom(s, i + 1, Append(piece, s[i]))

split(s) == splitFrom(s, 1, <<>>)

\* name.trim(): the white space at both ends is dropped
RECURSIVE trimStart(_)
trimStart(s) ==
  IF s # <<>> /\ Head(s) = " " THEN trimStart(Tail(s)) ELSE s

RECURSIVE trimEnd(_)
trimEnd(s) ==
  IF s # <<>> /\ s[Len(s)] = " " THEN trimEnd(SubSeq(s, 1, Len(s) - 1)) ELSE s

trim(s) == trimEnd(trimStart(s))

\* containersToRestart.split(',').map(name => name.trim())
containerNames(s) == [i \in DOMAIN split(s) |-> trim(split(s)[i])]

\* the values of CONTAINER_TO_RESTART: unset, two services, two services with
\* white space and an empty piece, one service named twice, nothing but a comma
ContainerLists ==
  {<<>>,
   <<"g", ",", "q">>,
   <<" ", "g", " ", ",", ",", "q", " ">>,
   <<"g", ",", "g">>,
   <<",">>}

----------------------------------------------------------------------------
(* server.js: POST /api/activate-config and GET /api/current-config-info *)

wg0Path(wireguardDir) == pathJoin(wireguardDir, Wg0Conf)

\* the environments: WIREGUARD_DIR set, with every list of services, and unset
Environments ==
  {[wireguardDir |-> WgDir, containersToRestart |-> c] : c \in ContainerLists}
  \cup {[wireguardDir |-> Null, containersToRestart |-> <<"g", ",", "q">>]}

\* the disk before the first request: the fixed files, with or without an
\* active slot and with or without a state file
Disks ==
  {[p \in DOMAIN FixedFiles \cup extra |->
      IF p \in DOMAIN FixedFiles THEN FixedFiles[p]
      ELSE IF p = statePath THEN RegularFile(StateBytes(JpConf))
      ELSE RegularFile(Bytes("old"))]
   : extra \in SUBSET {wg0Path(WgDir), statePath}}

\* an activate-config request: where it stands (pc), its body, the trimmed names
\* of the fan-out, the state of each restart ("none" for an empty name, then
\* "pending", "success" or "error"), the names docker was asked to restart, in
\* the order of the calls, and the response (status 0: none yet)
NoRequest ==
  [pc |-> "idle", body |-> NoBody, names |-> <<>>, slots |-> <<>>,
   requested |-> <<>>, status |-> 0, res |-> <<>>]

Failure(error) == [success |-> FALSE, error |-> error]

\* the request ends with this response
Answer(a, status, res) == [a EXCEPT !.pc = "done", !.status = status, !.res = res]

\* Faulty variant of validate: the source is copied without being looked at.
validateNothing(e, f, sourcePath) == ""

\* what fs.stat(sourcePath), isFile() and the WIREGUARD_DIR test make of the
\* request: the error thrown or answered, "" when the copy is started
validate(e, f, sourcePath) ==
  IF ~exists(f, sourcePath) THEN "ENOENT"
  ELSE IF ~isFile(f, sourcePath) THEN "Le chemin source n'est pas un fichier valide"
  ELSE IF e.wireguardDir = Null THEN "WIREGUARD_DIR"
  ELSE ""

\* Faulty variant of restartEntry: a failed restart is left out of the list.
restartEntryDropsErrors(containerName, slot) ==
  IF slot = "success"
  THEN <<[containerName |-> containerName, status |-> "success"]>>
  ELSE <<>>

\* what one restart promise resolves to, as a list: nothing for null
restartEntry(containerName, slot) ==
  IF slot = "none" THEN <<>>
  ELSE IF slot = "success"
  THEN <<[containerName |-> containerName, status |-> "success"]>>
  ELSE <<[containerName |-> containerName, status |-> "error",
          message |-> "restart failed"]>>

\* results.filter(r => r !== null), in the order of the names
RECURSIVE restartResults(_, _, _)
restartResults(names, slots, i) ==
  IF i > Len(names) THEN <<>>
  ELSE restartEntry(names[i], slots[i]) \o restartResults(names, slots, i + 1)

\* Faulty variant of fanOutSlots: the fan-out stops at the first empty name.
RECURSIVE fanOutSlotsStops(_, _)
fanOutSlotsStops(names, i) ==
  IF i > Len(names) THEN <<>>
  ELSE IF names[i] = <<>> THEN [j \in 1..(Len(names) - i + 1) |-> "none"]
  ELSE <<"pending">> \o fanOutSlotsStops(names, i + 1)

\* containerNames.map(async ...): a restart is requested for every name that is
\* not empty, in the order of the list
RECURSIVE fanOutSlots(_, _)
fanOutSlots(names, i) ==
  IF i > Len(names) THEN <<>>
  ELSE <<IF names[i] = <<>> THEN "none" ELSE "pending">>
       \o fanOutSlots(names, i + 1)

\* the names docker.getContainer(name).restart() is called with, in order
RECURSIVE fanOutRequests(_, _, _)
fanOutRequests(names, slots, i) ==
  IF i > Len(names) THEN <<>>
  ELSE (IF slots[i] = "none" THEN <<>> ELSE <<names[i]>>)
       \o fanOutRequests(names, slots, i + 1)

\* the 200 response of an activation
Activated(sourceName, restarts) ==
  [success |-> TRUE, activated |-> [sourceName |-> sourceName],
   restarts |-> restarts]

\* Faulty variant of activeConfigName: the state file is not read.
activeConfigNameDefault(f) == Wg0Conf

\* current-config-info: the name it reads from the state file; the default when
\* the file cannot be read or parsed or holds no name
activeConfigName(f) ==
  IF ~isFile(f, statePath) THEN Wg0Conf
  ELSE IF parseState(f[statePath].content).threw THEN Wg0Conf
  ELSE IF parseState(f[statePath].content).activeConfigName = <<>> THEN Wg0Conf
  ELSE parseState(f[statePath].content).activeConfigName

\* Faulty variant of configInfo: the name is reported without the active file
\* being looked for.
configInfoNoStat(e, f, statError) ==
  IF e.wireguardDir = Null
  THEN [status |-> 500, body |-> [success |-> FALSE, reason |-> "config_error"]]
  ELSE [status |-> 200, body |-> [success |-> TRUE, name |-> activeConfigName(f)]]

\* GET /api/current-config-info: status and body (size and lastModified are
\* left out); statError: fs.stat fails with an error other than ENOENT
configInfo(e, f, statError) ==
  IF e.wireguardDir = Null
  THEN [status |-> 500, body |-> [success |-> FALSE, reason |-> "config_error"]]
  ELSE IF ~exists(f, wg0Path(e.wireguardDir))
  THEN [status |-> 200, body |-> [success |-> FALSE, reason |-> "not_found"]]
  ELSE IF statError
  THEN [status |-> 500, body |-> [success |-> FALSE, reason |-> "read_error"]]
  ELSE [status |-> 200, body |-> [success |-> TRUE, name |-> activeConfigName(f)]]

NoInfo == [status |-> 0, body |-> <<>>]

\* the requests in flight: one at a time
ActIds == {1}

\* no activation is asked for: the environment, the disk and the requests rest
ActIdle ==
  /\ env = [wireguardDir |-> WgDir, containersToRestart |-> <<>>]
  /\ disk = FixedFiles
  /\ act = [r \in ActIds |-> NoRequest]
  /\ info = NoInfo

actVars == <<env, disk, act, info>>

----------------------------------------------------------------------------
(* The operation history: server.js /api/operation-history, addToHistory *)

historyPath ==
  pathJoin(pathJoin(ConfigDir, <<"h", "i", "s", "t", "o", "r", "y">>),
           <<"h", "i", "s", "t", "o", "r", "y", ".", "j", "s", "o", "n">>)

\* `operationHistory.length > 20`, `slice(0, 20)`
HistoryCap == 20

\* JSON.stringify(value, null, 2) as the bytes of a file
JsonBytes(value) == <<"json", value>>

\* JSON.parse(data): of bytes that are no JSON it throws
jsonParse(content) ==
  IF Len(content) = 2 /\ content[1] = "json"
  THEN [threw |-> FALSE, value |-> content[2]]
  ELSE [threw |-> TRUE, value |-> <<>>]

\* f without the path p
RemoveFile(f, p) == [q \in DOMAIN f \ {p} |-> f[q]]

\* Faulty variant of unshiftCapped: the operation is put at the end.
pushCapped(operationHistory, operation) ==
  LET list == Append(operationHistory, operation) IN
  IF Len(list) > HistoryCap THEN SubSeq(list, 1, HistoryCap) ELSE list

\* addToHistory: unshift(operation), then slice(0, 20) of a longer list
unshiftCapped(operationHistory, operation) ==
  LET list == <<operation>> \o operationHistory IN
  IF Len(list) > HistoryCap THEN SubSeq(list, 1, HistoryCap) ELSE list

\* GET: the parsed file; [] when there is none; 500 for any other failure of
\* the read (readError) or of the parse
getHistory(f, readError) ==
  IF ~exists(f, historyPath) THEN [status |-> 200, body |-> <<>>]
  ELSE IF readError \/ ~isFile(f, historyPath)
  THEN [status |-> 500, body |-> Failure("Could not read history.")]
  ELSE IF jsonParse(f[historyPath].content).threw
  THEN [status |-> 500, body |-> Failure("Could not read history.")]
  ELSE [status |-> 200, body |-> jsonParse(f[historyPath].content).value]

\* the body of a POST has no `history`: JSON.stringify gives undefined, which
\* fs.writeFile refuses
noHistory(body) == "history" \notin DOMAIN body

\* POST: the file is written with req.body.history, whatever it held
postHistory(f, body, writeError) ==
  IF noHistory(body) \/ writeError
  THEN [status |-> 500, body |-> Failure("Could not write history."), disk |-> f]
  ELSE [status |-> 200, body |-> [success |-> TRUE],
        disk |-> WriteFile(f, historyPath, RegularFile(JsonBytes(body.history)))]

\* Faulty variant of deleteHistory: a file that is not there is an error.
deleteHistoryStrict(f, unlinkError) ==
  IF unlinkError \/ ~exists(f, historyPath)
  THEN [status |-> 500, body |-> Failure("Could not delete history."), disk |-> f]
  ELSE [status |-> 200, body |-> [success |-> TRUE],
        disk |-> RemoveFile(f, historyPath)]

\* DELETE: fs.unlink; ENOENT is no error (unlinkError: any other failure)
deleteHistory(f, unlinkError) ==
  IF unlinkError
  THEN [status |-> 500, body |-> Failure("Could not delete history."), disk |-> f]
  ELSE [status |-> 200, body |-> [success |-> TRUE],
        disk |-> RemoveFile(f, historyPath)]

\* the page as loaded on an empty history: operationHistory, the number of
\* addToHistory calls, whether the save of the last one was answered, and
\* whether the file has been written by these calls alone
NoAppends ==
  [operationHistory |-> <<>>, appended |-> 0, saved |-> TRUE, alone |-> TRUE]

\* an exchange of /api/operation-history: the request (sent: its body), whether
\* the file existed when it came, and the response
HistoryExchange(method, sent, existed, out) ==
  [method |-> method, sent |-> sent, existed |-> existed,
   status |-> out.status, body |-> out.body]

NoHistoryExchange ==
  HistoryExchange("", <<>>, FALSE, [status |-> 0, body |-> <<>>])

\* nothing of the operation history moves
HistIdle ==
  /\ browser = NoAppends
  /\ hres = NoHistoryExchange

histVars == <<browser, hres>>

----------------------------------------------------------------------------
(* The account records a credential store is provisioned with *)

Accounts ==
  [passwordHash : {Null, argon2Hash(GoodPassword)},
   mustChangePassword : BOOLEAN,
   failedAttempts : 0..(MaxAttempts - 1),
   lockedUntil : {Null, <<LockTime>>}]

Stores ==
  UNION {[names -> Accounts] : names \in SUBSET Usernames}

NoStreak == 0 - 1

\* no call of a pure function is under way
NoCall == [fn |-> ""]

Init ==
  /\ store \in Stores
  /\ now = 0
  /\ server = "stopped"
  /\ bootPc = "idle"
  /\ bootData = Null
  /\ session = freshSession
  /\ resp = NoExchange
  /\ streak = [u \in Usernames |-> NoStreak]
  /\ call = NoCall
  /\ ActIdle
  /\ HistIdle

----------------------------------------------------------------------------
(* The process *)

\* startServer(): the bootstrap call is started and not awaited, the routes are
\* registered and app.listen() is called, all in one synchronous run
StartServer ==
  /\ server = "stopped"
  /\ server' = "listening"
  /\ bootPc' = "load"
  /\ UNCHANGED <<store, now, bootData, session, resp, streak, others>>

\* ensureAdminPasswordInitialized: loadUsers() resolves, the admin is looked up.
\* A missing admin record makes `admin.passwordHash` throw: the promise nobody
\* awaits is rejected and node ends the process.
BootLoad ==
  /\ server = "listening"
  /\ bootPc = "load"
  /\ LET step == bootstrapStep(store) IN
       /\ bootPc' = IF step = "throw" THEN "failed"
                    ELSE IF step = "hash" THEN "hash" ELSE "skipped"
       /\ bootData' = IF step = "hash" THEN store ELSE Null
       /\ server' = IF step = "throw" THEN "crashed" ELSE server
       /\ session' = IF step = "throw" THEN freshSession ELSE session
  /\ UNCHANGED <<store, now, resp, streak, others>>

\* ensureAdminPasswordInitialized: argon2.hash resolves, saveUsers(data) writes
\* the data loaded earlier with the admin's hash and flag set
BootSave ==
  /\ server = "listening"
  /\ bootPc = "hash"
  /\ store' = bootstrapData(bootData)
  /\ bootPc' = "saved"
  /\ bootData' = Null
  /\ streak' = [streak EXCEPT ![AdminUsername] = NoStreak]
  /\ UNCHANGED <<now, server, session, resp, others>>

\* the process ends (a crash, or the container is stopped): the sessions, which
\* live in memory, are lost, and so is a bootstrap call still in flight
Stop ==
  /\ server # "stopped"
  /\ server' = "stopped"
  /\ bootPc' = "idle"
  /\ bootData' = Null
  /\ session' = freshSession
  /\ UNCHANGED <<store, now, resp, streak, others>>

Tick ==
  /\ now < MaxTime
  /\ now' = now + 1
  /\ UNCHANGED <<store, server, bootPc, bootData, session, resp, streak, others>>

----------------------------------------------------------------------------
(* The requests *)

\* streak[u] after an authenticate call for an existing account u.  It counts
\* the wrong-password calls made in a row from a record with failedAttempts = 0
\* and no active lock; past MaxAttempts it counts the calls made while the lock
\* they set is active; NoStreak when the calls so far are no such run.
streakAfter(user, old, password, t) ==
  IF user.passwordHash = Null THEN NoStreak
  ELSE IF user.lockedUntil # Null /\ t < user.lockedUntil[1]
  THEN IF old >= MaxAttempts THEN MaxAttempts + 1 ELSE NoStreak
  ELSE IF user.passwordHash[2] = password THEN NoStreak
  ELSE IF user.failedAttempts = 0 THEN 1
  ELSE IF old >= 1 /\ old < MaxAttempts THEN old + 1
  ELSE NoStreak

\* POST /api/auth/login
Login(username, password) ==
  /\ server = "listening"
  /\ LET answer == dispatch(session, "POST", "/api/auth/login")
         auth == authenticate(store, username, password, now)
         out == loginResponse(auth.result)
     IN /\ answer = Handler("/api/auth/login")
        /\ store' = IF auth.saved THEN auth.data ELSE store
        /\ session' = loginSession(session, username, auth.result)
        /\ resp' = Exchange("POST", "/api/auth/login", <<username, password>>,
                            now, session,
                            IF userExists(store, username)
                            THEN <<store[username]>> ELSE <<>>,
                            answer, out.status, out.body)
        /\ streak' = IF userExists(store, username)
                     THEN [streak EXCEPT ![username] =
                             streakAfter(store[username], streak[username], password, now)]
                     ELSE streak
  /\ UNCHANGED <<now, server, bootPc, bootData, others>>

\* Faulty variant of ChangePassword: the session is not asked for its user, the
\* change is made for the admin account.
ChangePasswordUnguarded(newPassword) ==
  /\ server = "listening"
  /\ LET answer == dispatch(session, "POST", "/api/auth/change-password")
         change == changePassword(store, AdminUsername, newPassword)
     IN /\ store' = change.data
        /\ session' = [session EXCEPT !.mustChangePassword = FALSE]
        /\ streak' = [streak EXCEPT ![AdminUsername] = NoStreak]
        /\ resp' = Exchange("POST", "/api/auth/change-password", <<newPassword>>,
                            now, session, <<>>, answer,
                            IF change.threw THEN 400 ELSE 302, "")
  /\ UNCHANGED <<now, server, bootPc, bootData, others>>

\* Faulty variant of ChangePassword: the account changed is the admin's, whoever
\* the session's user is.
ChangePasswordForAdmin(newPassword) ==
  /\ server = "listening"
  /\ LET answer == dispatch(session, "POST", "/api/auth/change-password") IN
     /\ answer = Handler("/api/auth/change-password")
     /\ IF session.user = NoUser
        THEN /\ resp' = Exchange("POST", "/api/auth/change-password",
                                 <<newPassword>>, now, session, <<>>, answer, 401,
                                 [success |-> FALSE, error |-> "Unauthorized"])
             /\ UNCHANGED <<store, session, streak>>
        ELSE LET change == changePassword(store, AdminUsername, newPassword) IN
             IF change.threw
             THEN /\ resp' = Exchange("POST", "/api/auth/change-password",
                                      <<newPassword>>, now, session, <<>>, answer, 400,
                                      [success |-> FALSE, error |-> change.error])
                  /\ UNCHANGED <<store, session, streak>>
             ELSE /\ store' = change.data
                  /\ session' = [session EXCEPT !.mustChangePassword = FALSE]
                  /\ streak' = [streak EXCEPT ![AdminUsername] = NoStreak]
                  /\ resp' = Exchange("POST", "/api/auth/change-password",
                                      <<newPassword>>, now, session,
                                      <<store[AdminUsername]>>, Redirect("/"), 302, "")
  /\ UNCHANGED <<now, server, bootPc, bootData, others>>

\* POST /api/auth/change-password
ChangePassword(newPassword) ==
  /\ server = "listening"
  /\ LET answer == dispatch(session, "POST", "/api/auth/change-password") IN
     /\ answer = Handler("/api/auth/change-password")
     /\ IF session.user = NoUser
        THEN /\ resp' = Exchange("POST", "/api/auth/change-password",
                                 <<newPassword>>, now, session, <<>>, answer, 401,
                                 [success |-> FALSE, error |-> "Unauthorized"])
             /\ UNCHANGED <<store, session, streak>>
        ELSE LET change == changePassword(store, session.user, newPassword) IN
             IF change.threw
             THEN /\ resp' = Exchange("POST", "/api/auth/change-password",
                                      <<newPassword>>, now, session, <<>>, answer, 400,
                                      [success |-> FALSE, error |-> change.error])
                  /\ UNCHANGED <<store, session, streak>>
             ELSE /\ store' = change.data
                  /\ session' = [session EXCEPT !.mustChangePassword = FALSE]
                  /\ streak' = [streak EXCEPT ![session.user] = NoStreak]
                  /\ resp' = Exchange("POST", "/api/auth/change-password",
                                      <<newPassword>>, now, session,
                                      <<store[session.user]>>, Redirect("/"), 302, "")
  /\ UNCHANGED <<now, server, bootPc, bootData, others>>

\* POST /api/auth/logout
Logout ==
  /\ server = "listening"
  /\ LET answer == dispatch(session, "POST", "/api/auth/logout") IN
     /\ answer = Handler("/api/auth/logout")
     /\ session' = freshSession
     /\ resp' = Exchange("POST", "/api/auth/logout", <<>>, now, session, <<>>,
                         answer, 200, [success |-> TRUE])
  /\ UNCHANGED <<store, now, server, bootPc, bootData, streak, others>>

\* GET /api/auth/me
Me ==
  /\ server = "listening"
  /\ LET answer == dispatch(session, "GET", "/api/auth/me") IN
     /\ answer = Handler("/api/auth/me")
     /\ resp' = IF session.user = NoUser
                THEN Exchange("GET", "/api/auth/me", <<>>, now, session, <<>>,
                              answer, 401, [success |-> FALSE])
                ELSE Exchange("GET", "/api/auth/me", <<>>, now, session, <<>>,
                              answer, 200,
                              [success |-> TRUE, username |-> session.user])
  /\ UNCHANGED <<store, now, server, bootPc, bootData, session, streak, others>>

\* any other request: the chain answers it
Request(method, path) ==
  /\ server = "listening"
  /\ LET answer == dispatch(session, method, path) IN
     \E status \in statuses(answer) :
        resp' = Exchange(method, path, <<>>, now, session, <<>>, answer, status, "")
  /\ UNCHANGED <<store, now, server, bootPc, bootData, session, streak, others>>

Next ==
  \/ StartServer
  \/ BootLoad
  \/ BootSave
  \/ Stop
  \/ Tick
  \/ \E username \in LoginNames, password \in Passwords : Login(username, password)
  \/ \E newPassword \in Passwords : ChangePassword(newPassword)
  \/ Logout
  \/ Me
  \/ \E request \in Requests : Request(request[1], request[2])

Spec == Init /\ [][Next]_vars

----------------------------------------------------------------------------
(* The password policy engine under every configuration *)

\* the longest candidate password, and the largest PASSWORD_MIN_LENGTH
MaxPasswordLen == 4

\* one character of each class, and one of none ("-" is not in the regexp's set)
PolicyChars == {"A", "a", "0", "!", "-"}

CandidatePasswords ==
  UNION {[1..n -> PolicyChars] : n \in 0..MaxPasswordLen}

\* security.passwordPolicy for every value of the PASSWORD_* variables
Policies ==
  [minLength : 0..(MaxPasswordLen + 1),
   requireUppercase : BOOLEAN, requireLowercase : BOOLEAN,
   requireDigit : BOOLEAN, requireSpecial : BOOLEAN,
   maxAttempts : {MaxAttempts}, lockTimeSeconds : {LockTime}]

\* the server is not running: nothing of the authentication service moves
AuthIdle ==
  /\ store = [u \in Usernames |-> [passwordHash |-> Null,
                                    mustChangePassword |-> FALSE,
                                    failedAttempts |-> 0, lockedUntil |-> Null]]
  /\ now = 0
  /\ server = "stopped"
  /\ bootPc = "idle"
  /\ bootData = Null
  /\ session = freshSession
  /\ resp = NoExchange
  /\ streak = [u \in Usernames |-> NoStreak]

authVars == <<store, now, server, bootPc, bootData, session, resp, streak>>

PolicyInit ==
  /\ AuthIdle
  /\ call \in [fn : {"validatePasswordPolicy"}, policy : Policies,
                password : CandidatePasswords, returned : {FALSE},
                result : {FALSE}]
  /\ ActIdle
  /\ HistIdle

\* validatePasswordPolicy(password) runs under the configured policy
Validate ==
  /\ call.fn = "validatePasswordPolicy"
  /\ ~call.returned
  /\ call' = [call EXCEPT !.returned = TRUE,
                          !.result = validatePolicy(call.policy, call.password)]
  /\ UNCHANGED <<authVars, actVars, histVars>>

PolicyNext == Validate

PolicySpec == PolicyInit /\ [][PolicyNext]_vars

----------------------------------------------------------------------------
(* The activation workflow *)

\* the request arrives: `!sourcePath` is answered 400, else fs.stat is called
Receive(r, body) ==
  /\ act[r].pc \in {"idle", "done"}
  /\ act' = [act EXCEPT ![r] =
               IF noSourcePath(body)
               THEN Answer([NoRequest EXCEPT !.body = body], 400,
                           Failure("Le chemin du fichier source est manquant."))
               ELSE [NoRequest EXCEPT !.pc = "stat", !.body = body]]
  /\ UNCHANGED <<env, disk, info, call, authVars, histVars>>

\* fs.stat resolves or rejects; a source that passes has fs.copyFile called
StatDone(r) ==
  /\ act[r].pc = "stat"
  /\ LET error == validate(env, disk, act[r].body.sourcePath) IN
     act' = [act EXCEPT ![r] =
               IF error = "" THEN [@ EXCEPT !.pc = "copy"]
               ELSE Answer(@, 500, Failure(error))]
  /\ UNCHANGED <<env, disk, info, call, authVars, histVars>>

\* fs.copyFile resolves (the slot holds the source's bytes; a copy of the slot
\* onto itself changes nothing) and fs.writeFile is called, or it rejects (the
\* slot is as it was, or holds a part of the bytes)
CopyDone(r) ==
  /\ act[r].pc = "copy"
  /\ LET source == act[r].body.sourcePath
         slot == wg0Path(env.wireguardDir)
     IN \/ /\ isFile(disk, source)
           /\ disk' = IF source = slot THEN disk
                      ELSE WriteFile(disk, slot, RegularFile(disk[source].content))
           /\ act' = [act EXCEPT ![r].pc = "write"]
        \/ /\ disk' \in {disk, WriteFile(disk, slot, RegularFile(Truncated))}
           /\ act' = [act EXCEPT ![r] = Answer(@, 500, Failure("copyFile"))]
  /\ UNCHANGED <<env, info, call, authVars, histVars>>

\* Faulty variant of WriteDone: the restarts are requested before the state is
\* written, so also when the write then fails.
WriteDoneRestartsFirst(r) ==
  /\ act[r].pc = "write"
  /\ LET sourceName == pathBasename(act[r].body.sourcePath)
         names == containerNames(env.containersToRestart)
         slots == fanOutSlots(names, 1)
     IN \/ /\ disk' = WriteFile(disk, statePath, RegularFile(StateBytes(sourceName)))
           /\ act' = [act EXCEPT ![r] =
                        IF env.containersToRestart = <<>>
                        THEN Answer(@, 200, Activated(sourceName, <<>>))
                        ELSE [@ EXCEPT !.pc = "restarts", !.names = names,
                                       !.slots = slots,
                                       !.requested = fanOutRequests(names, slots, 1)]]
        \/ /\ disk' \in {disk, WriteFile(disk, statePath, RegularFile(Truncated))}
           /\ act' = [act EXCEPT ![r] =
                        Answer([@ EXCEPT !.requested = fanOutRequests(names, slots, 1)],
                               500, Failure("writeFile"))]
  /\ UNCHANGED <<env, info, call, authVars, histVars>>

\* fs.writeFile(statePath) resolves: the restarts are all requested, or, with no
\* CONTAINER_TO_RESTART, the response is sent; or it rejects (the state file is
\* as it was, or was opened and emptied before the write failed)
WriteDone(r) ==
  /\ act[r].pc = "write"
  /\ LET sourceName == pathBasename(act[r].body.sourcePath)
         names == containerNames(env.containersToRestart)
         slots == fanOutSlots(names, 1)
     IN \/ /\ disk' = WriteFile(disk, statePath, RegularFile(StateBytes(sourceName)))
           /\ act' = [act EXCEPT ![r] =
                        IF env.containersToRestart = <<>>
                        THEN Answer(@, 200, Activated(sourceName, <<>>))
                        ELSE [@ EXCEPT !.pc = "restarts", !.names = names,
                                       !.slots = slots,
                                       !.requested = fanOutRequests(names, slots, 1)]]
        \/ /\ disk' \in {disk, WriteFile(disk, statePath, RegularFile(Truncated))}
           /\ act' = [act EXCEPT ![r] = Answer(@, 500, Failure("writeFile"))]
  /\ UNCHANGED <<env, info, call, authVars, histVars>>

\* container.restart() of the i-th name resolves or rejects
RestartDone(r, i) ==
  /\ act[r].pc = "restarts"
  /\ i \in DOMAIN act[r].slots
  /\ act[r].slots[i] = "pending"
  /\ \E outcome \in {"success", "error"} :
        act' = [act EXCEPT ![r].slots[i] = outcome]
  /\ UNCHANGED <<env, disk, info, call, authVars, histVars>>

\* Faulty variant of Respond: the response is sent as soon as one restart has
\* ended (a race for Promise.all).
RespondEarly(r) ==
  /\ act[r].pc = "restarts"
  /\ \E i \in DOMAIN act[r].slots : act[r].slots[i] # "pending"
  /\ act' = [act EXCEPT ![r] =
               Answer(@, 200,
                      Activated(pathBasename(act[r].body.sourcePath),
                                restartResults(act[r].names, act[r].slots, 1)))]
  /\ UNCHANGED <<env, disk, info, call, authVars, histVars>>

\* Promise.all resolves: every restart has ended, the response is sent
Respond(r) ==
  /\ act[r].pc = "restarts"
  /\ \A i \in DOMAIN act[r].slots : act[r].slots[i] # "pending"
  /\ act' = [act EXCEPT ![r] =
               Answer(@, 200,
                      Activated(pathBasename(act[r].body.sourcePath),
                                restartResults(act[r].names, act[r].slots, 1)))]
  /\ UNCHANGED <<env, disk, info, call, authVars, histVars>>

ConfigInfo ==
  /\ \E statError \in BOOLEAN : info' = configInfo(env, disk, statError)
  /\ UNCHANGED <<env, disk, act, call, authVars, histVars>>

ActInit ==
  /\ AuthIdle
  /\ call = NoCall
  /\ env \in Environments
  /\ disk \in Disks
  /\ act = [r \in ActIds |-> NoRequest]
  /\ info = NoInfo
  /\ HistIdle

ActNext ==
  \/ \E r \in ActIds, body \in Bodies : Receive(r, body)
  \/ \E r \in ActIds : StatDone(r)
  \/ \E r \in ActIds : CopyDone(r)
  \/ \E r \in ActIds : WriteDone(r)
  \/ \E r \in ActIds : \E i \in DOMAIN act[r].slots : RestartDone(r, i)
  \/ \E r \in ActIds : Respond(r)
  \/ ConfigInfo

ActSpec == ActInit /\ [][ActNext]_vars

\* every restart call ends (container.restart() resolves or rejects), and the
\* continuation of Promise.all runs once it can
ActFairSpec ==
  /\ ActSpec
  /\ \A r \in ActIds :
       /\ WF_vars(\E i \in DOMAIN act[r].slots : RestartDone(r, i))
       /\ WF_vars(Respond(r))

----------------------------------------------------------------------------
(* server.js: GET /api/locations, the resolver *)

Capitals == <<"A", "B", "C", "D", "E", "F", "G", "H", "I", "J", "K", "L", "M",
              "N", "O", "P", "Q", "R", "S", "T", "U", "V", "W", "X", "Y", "Z">>
Smalls == <<"a", "b", "c", "d", "e", "f", "g", "h", "i", "j", "k", "l", "m",
            "n", "o", "p", "q", "r", "s", "t", "u", "v", "w", "x", "y", "z">>

\* String.prototype.toLowerCase, for the ASCII letters
toLowerCase(s) ==
  [i \in DOMAIN s |->
     IF \E k \in DOMAIN Capitals : Capitals[k] = s[i]
     THEN Smalls[CHOOSE k \in DOMAIN Capitals : Capitals[k] = s[i]]
     ELSE s[i]]

\* String.prototype.endsWith
endsWith(s, suffix) ==
  /\ Len(s) >= Len(suffix)
  /\ SubSeq(s, Len(s) - Len(suffix) + 1, Len(s)) = suffix

\* fs.readdir(dir): the names of the entries of the directory
readdir(f, dir) ==
  {pathBasename(p) : p \in {q \in DOMAIN f : /\ Len(q) = Len(dir) + 1
                                            /\ SubSeq(q, 1, Len(dir)) = dir}}

\* files.filter(file => file.endsWith('.conf'))
availableConfFiles(files) == {file \in files : endsWith(file, DotConf)}

\* data.keywords && data.keywords.length >= 2
hasEnoughKeywords(data) ==
  IF "keywords" \in DOMAIN data THEN Len(data.keywords) >= 2 ELSE FALSE

\* `${data.keywords[0]}.conf`
expectedFileName(data) == data.keywords[1] \o DotConf

\* the files availableConfFiles.find(...) can return: those whose lower-cased
\* name is the lower-cased expected name (the first in the order of readdir)
foundFiles(confFiles, data) ==
  {f \in confFiles : toLowerCase(f) = toLowerCase(expectedFileName(data))}

\* isAvailable of the enriched location
isAvailable(files, data) ==
  IF hasEnoughKeywords(data)
  THEN foundFiles(availableConfFiles(files), data) # {}
  ELSE FALSE

\* config/locations.json of the activation workflow's disk: two locations
LocationsData ==
  [c \in {"fr", "jp"} |->
     [keywords |-> IF c = "fr" THEN <<<<"f", "r">>, <<"p", "a", "r", "i", "s">>>>
                   ELSE <<<<"j", "p">>, <<"t", "o", "k", "y", "o">>>>]]

\* the fullPath values the resolver reports for its available locations
availablePaths(e, f) ==
  IF e.wireguardDir = Null THEN {}
  ELSE {pathJoin(e.wireguardDir, name) :
          name \in UNION {foundFiles(availableConfFiles(readdir(f, e.wireguardDir)),
                                     LocationsData[c]) :
                            c \in {d \in DOMAIN LocationsData :
                                     hasEnoughKeywords(LocationsData[d])}}}

\* the most keywords a declared location holds
MaxKeywords == 3

\* file names of a directory: fr.conf in three spellings, two names that are
\* none of them, and another location's file
FileNames ==
  {<<"f", "r", ".", "c", "o", "n", "f">>,
   <<"F", "R", ".", "c", "o", "n", "f">>,
   <<"f", "r", ".", "C", "O", "N", "F">>,
   <<"f", "r", "x", ".", "c", "o", "n", "f">>,
   <<"f", "r", ".", "c", "o", "n">>,
   <<"j", "p", ".", "c", "o", "n", "f">>}

Keywords == {<<"f", "r">>, <<"F", "r">>, <<"j", "p">>}

\* the declared data of a location: without keywords, or with up to MaxKeywords
LocationData ==
  {[countryNameKey |-> "country"]}
  \cup {[keywords |-> k] : k \in UNION {[1..n -> Keywords] : n \in 0..MaxKeywords}}

ResolverInit ==
  /\ AuthIdle
  /\ ActIdle
  /\ HistIdle
  /\ call \in [fn : {"locations"}, files : SUBSET FileNames, data : LocationData,
                returned : {FALSE}, result : {FALSE}]

\* GET /api/locations enriches one declared location
Locate ==
  /\ call.fn = "locations"
  /\ ~call.returned
  /\ call' = [call EXCEPT !.returned = TRUE,
                          !.result = isAvailable(call.files, call.data)]
  /\ UNCHANGED <<authVars, actVars, histVars>>

ResolverNext == Locate

ResolverSpec == ResolverInit /\ [][ResolverNext]_vars

----------------------------------------------------------------------------
(* server.js: GET /api/locations, the whole handler *)

IsConf(file) == endsWith(file, DotConf)

\* step 1 of the handler: the .conf names of the directory in the order of
\* fs.readdir; none when WIREGUARD_DIR is not set or fs.readdir rejects
listConfFiles(wireguardDir, dir) ==
  IF wireguardDir = Null THEN <<>>
  ELSE IF ~dir.listable THEN <<>>
  ELSE SelectSeq(dir.files, IsConf)

\* availableConfFiles.find(...): the first name that matches, or Null
find(confFiles, expected) ==
  LET hits == {i \in DOMAIN confFiles :
                 toLowerCase(confFiles[i]) = toLowerCase(expected)}
  IN IF hits = {} THEN Null
     ELSE confFiles[CHOOSE i \in hits : \A j \in hits : i <= j]

\* Faulty variant of enrich: the path is built from the expected name, found or
\* not.
enrichGuessesPath(wireguardDir, confFiles, entry) ==
  LET countryCode == entry[1]
      data == entry[2]
      matchingFileName == IF hasEnoughKeywords(data)
                          THEN find(confFiles, expectedFileName(data)) ELSE Null
  IN [countryCode |-> countryCode, data |-> data,
      isAvailable |-> matchingFileName # Null,
      fullPath |-> IF hasEnoughKeywords(data)
                   THEN pathJoin(wireguardDir, expectedFileName(data)) ELSE Null,
      fileName |-> matchingFileName]

\* step 3 of the handler for one entry [countryCode, data] of the metadata
enrich(wireguardDir, confFiles, entry) ==
  LET countryCode == entry[1]
      data == entry[2]
      matchingFileName == IF hasEnoughKeywords(data)
                          THEN find(confFiles, expectedFileName(data)) ELSE Null
  IN [countryCode |-> countryCode, data |-> data,
      isAvailable |-> matchingFileName # Null,
      fullPath |-> IF matchingFileName # Null
                   THEN pathJoin(wireguardDir, matchingFileName) ELSE Null,
      fileName |-> matchingFileName]

\* the response: 500 when the metadata file cannot be read or parsed, else
\* Object.entries(locationsData).map(...)
locations(wireguardDir, dir, metadata) ==
  IF ~metadata.readable
  THEN [status |-> 500, body |-> [success |-> FALSE]]
  ELSE [status |-> 200,
        body |-> [success |-> TRUE,
                  locations |->
                    [k \in DOMAIN metadata.entries |->
                       enrich(wireguardDir, listConfFiles(wireguardDir, dir),
                              metadata.entries[k])]]]

\* the country codes of the metadata
CountryCodes == {"fr", "jp", "de"}

\* what the metadata declares for a code: de has one keyword only
Declared(c) ==
  [keywords |-> IF c = "fr" THEN <<<<"f", "r">>, <<"p", "a", "r", "i", "s">>>>
                ELSE IF c = "jp" THEN <<<<"j", "p">>, <<"t", "o", "k", "y", "o">>>>
                ELSE <<<<"d", "e">>>>]

\* the sequences without repetition of the members of S
Orders(S) ==
  {s \in UNION {[1..n -> S] : n \in 0..Cardinality(S)} :
     \A i, j \in DOMAIN s : i # j => s[i] # s[j]}

\* config/locations.json: unreadable, or an object whose keys, in the order of
\* insertion, are some of the country codes
Metadata ==
  {[readable |-> FALSE, entries |-> <<>>]}
  \cup {[readable |-> TRUE,
         entries |-> [k \in DOMAIN order |-> <<order[k], Declared(order[k])>>]] :
          order \in Orders(CountryCodes)}

\* the directory WIREGUARD_DIR names: absent, or listed in this order
Directories ==
  {[listable |-> FALSE, files |-> <<>>]}
  \cup {[listable |-> TRUE, files |-> l] :
          l \in {<<>>, <<FrConf>>, <<NotesTxt, JpConf>>,
                 <<<<"F", "R", ".", "c", "o", "n", "f">>, FrConf>>,
                 <<FrConf, <<"F", "R", ".", "c", "o", "n", "f">>>>}}

LocationsInit ==
  /\ AuthIdle
  /\ ActIdle
  /\ HistIdle
  /\ call \in [fn : {"GET /api/locations"}, wireguardDir : {Null, WgDir},
                dir : Directories, metadata : Metadata,
                returned : {FALSE}, result : {NoInfo}]

\* GET /api/locations
Locations ==
  /\ call.fn = "GET /api/locations"
  /\ ~call.returned
  /\ call' = [call EXCEPT !.returned = TRUE,
                          !.result = locations(call.wireguardDir, call.dir,
                                               call.metadata)]
  /\ UNCHANGED <<authVars, actVars, histVars>>

LocationsNext == Locations

LocationsSpec == LocationsInit /\ [][LocationsNext]_vars

----------------------------------------------------------------------------
(* The operation history *)

\* the most addToHistory calls of a page
MaxAppends == 22

\* the bodies of a POST that is not the page's: none, and three lists
HistoryBodies ==
  {<<>>, [history |-> <<>>], [history |-> <<101>>], [history |-> <<102, 101>>]}

\* addToHistory(operation): the operation, numbered by its call, is put first,
\* the list is cut to 20 and posted; the caller does not read the answer
AddToHistory(writeError) ==
  /\ browser.appended < MaxAppends
  /\ LET operation == browser.appended + 1
         list == unshiftCapped(browser.operationHistory, operation)
         out == postHistory(disk, [history |-> list], writeError)
     IN /\ browser' = [browser EXCEPT !.operationHistory = list,
                                      !.appended = operation,
                                      !.saved = (out.status = 200)]
        /\ disk' = out.disk
        /\ hres' = HistoryExchange("POST", [history |-> list],
                                   exists(disk, historyPath), out)
  /\ UNCHANGED <<authVars, call, env, act, info>>

\* GET /api/operation-history
GetHistory(readError) ==
  /\ hres' = HistoryExchange("GET", <<>>, exists(disk, historyPath),
                             getHistory(disk, readError))
  /\ UNCHANGED <<authVars, call, env, disk, act, info, browser>>

\* POST /api/operation-history from another client
PostHistory(body, writeError) ==
  /\ LET out == postHistory(disk, body, writeError) IN
       /\ disk' = out.disk
       /\ hres' = HistoryExchange("POST", body, exists(disk, historyPath), out)
       /\ browser' = [browser EXCEPT !.alone = @ /\ out.status # 200]
  /\ UNCHANGED <<authVars, call, env, act, info>>

\* DELETE /api/operation-history from another client
DeleteHistory(unlinkError) ==
  /\ LET out == deleteHistory(disk, unlinkError) IN
       /\ disk' = out.disk
       /\ hres' = HistoryExchange("DELETE", <<>>, exists(disk, historyPath), out)
       /\ browser' = [browser EXCEPT !.alone = @ /\ out.status # 200]
  /\ UNCHANGED <<authVars, call, env, act, info>>

HistoryInit ==
  /\ AuthIdle
  /\ call = NoCall
  /\ ActIdle
  /\ HistIdle

HistoryNext ==
  \/ \E writeError \in BOOLEAN : AddToHistory(writeError)
  \/ \E readError \in BOOLEAN : GetHistory(readError)
  \/ \E body \in HistoryBodies, writeError \in BOOLEAN : PostHistory(body, writeError)
  \/ \E unlinkError \in BOOLEAN : DeleteHistory(unlinkError)

HistorySpec == HistoryInit /\ [][HistoryNext]_vars

----------------------------------------------------------------------------
(* The credential store failing under a request *)

\* authenticate rejects with the error of the file system: loadUsers failed, or
\* the saveUsers that follows a verified or mismatched password did
loginStorageFailed(data, username, password, t, loadError, saveError) ==
  loadError \/ (saveError /\ authenticate(data, username, password, t).saved)

\* changePassword rejects with the error of the file system: the policy passed
\* and loadUsers failed, or the account was found and saveUsers failed
changeStorageFailed(data, username, newPassword, loadError, saveError) ==
  /\ validatePasswordPolicy(newPassword)
  /\ loadError \/ (saveError /\ userExists(data, username))

\* the status of the catch of POST /api/auth/login
loginCatchStatus == 500

\* the status of the catch of POST /api/auth/change-password
changeCatchStatus == 400

\* POST /api/auth/login with users.json unreadable (loadError) or unwritable
\* (saveError)
LoginFault(username, password, loadError, saveError) ==
  IF loginStorageFailed(store, username, password, now, loadError, saveError)
  THEN /\ server = "listening"
       /\ LET answer == dispatch(session, "POST", "/api/auth/login") IN
            /\ answer = Handler("/api/auth/login")
            /\ resp' = Exchange("POST", "/api/auth/login", <<username, password>>,
                                now, session, <<>>, answer, loginCatchStatus,
                                [success |-> FALSE])
       /\ UNCHANGED <<store, now, server, bootPc, bootData, session, streak, others>>
  ELSE Login(username, password)

\* POST /api/auth/change-password with users.json unreadable (loadError) or
\* unwritable (saveError)
ChangePasswordFault(newPassword, loadError, saveError) ==
  IF /\ session.user # NoUser
     /\ changeStorageFailed(store, session.user, newPassword, loadError, saveError)
  THEN /\ server = "listening"
       /\ LET answer == dispatch(session, "POST", "/api/auth/change-password") IN
            /\ answer = Handler("/api/auth/change-password")
            /\ resp' = Exchange("POST", "/api/auth/change-password",
                                <<newPassword>>, now, session, <<>>, answer,
                                changeCatchStatus,
                                [success |-> FALSE, error |-> "EIO"])
       /\ UNCHANGED <<store, now, server, bootPc, bootData, session, streak, others>>
  ELSE ChangePassword(newPassword)

FaultNext ==
  \/ StartServer
  \/ BootLoad
  \/ BootSave
  \/ Tick
  \/ \E username \in LoginNames, password \in Passwords,
        loadError \in BOOLEAN, saveError \in BOOLEAN :
        LoginFault(username, password, loadError, saveError)
  \/ \E newPassword \in Passwords, loadError \in BOOLEAN, saveError \in BOOLEAN :
        ChangePasswordFault(newPassword, loadError, saveError)

FaultSpec == Init /\ [][FaultNext]_vars

----------------------------------------------------------------------------
(* security.config.js and the session cookie of server.js *)

\* process.env: the variables that are set, each with its string
EnvNames == {"HTTPS_ENABLED", "HTTPS_KEY_PATH", "HTTPS_CERT_PATH", "SESSION_NAME"}

EnvValues(name) ==
  IF name = "HTTPS_ENABLED" THEN {"true", "false", "TRUE", "1", ""}
  ELSE IF name = "HTTPS_KEY_PATH" THEN {"", "/certs/key.pem"}
  ELSE IF name = "HTTPS_CERT_PATH" THEN {"", "/certs/cert.pem"}
  ELSE {"", "sid"}

ProcessEnvs ==
  {e \in UNION {[S -> UNION {EnvValues(n) : n \in EnvNames}] : S \in SUBSET EnvNames} :
     \A n \in DOMAIN e : e[n] \in EnvValues(n)}

\* process.env.NAME === value
envIs(processEnv, name, value) ==
  name \in DOMAIN processEnv /\ processEnv[name] = value

\* process.env.NAME || default
envOr(processEnv, name, default) ==
  IF name \in DOMAIN processEnv /\ processEnv[name] # ""
  THEN processEnv[name] ELSE default

\* module.exports of security.config.js
securityConfig(processEnv) ==
  [httpsEnabled |-> envIs(processEnv, "HTTPS_ENABLED", "false"),
   httpsKeyPath |-> envOr(processEnv, "HTTPS_KEY_PATH", ""),
   httpsCertPath |-> envOr(processEnv, "HTTPS_CERT_PATH", ""),
   sessionName |-> envOr(processEnv, "SESSION_NAME", "gluetun-switcher.sid")]

\* the options handed to session(): isHttps is security.httpsEnabled === true
sessionOptions(security) ==
  [name |-> security.sessionName,
   cookie |-> [httpOnly |-> TRUE,
               sameSite |-> IF security.httpsEnabled THEN "none" ELSE "lax",
               secure |-> security.httpsEnabled]]

ConfigInit ==
  /\ AuthIdle
  /\ call \in [fn : {"require"}, processEnv : ProcessEnvs]
  /\ ActIdle
  /\ HistIdle

\* server.js requires security.config.js and installs the session middleware
Configure ==
  /\ call.fn = "require"
  /\ LET security == securityConfig(call.processEnv) IN
       call' = [fn |-> "session", processEnv |-> call.processEnv,
                security |-> security, options |-> sessionOptions(security)]
  /\ UNCHANGED <<authVars, actVars, histVars>>

ConfigNext == Configure

ConfigSpec == ConfigInit /\ [][ConfigNext]_vars

----------------------------------------------------------------------------
(* auth.service.js: two calls under way at once *)

\* a second account of users.json
OperatorUsername == "operator"
RaceUsers == {AdminUsername, OperatorUsername}

\* the passwords the calls are made with
RacePasswords == {DefaultPassword, GoodPassword}

\* the account records users.json starts with
RaceAccounts ==
  [passwordHash : {Null, argon2Hash(DefaultPassword)},
   mustChangePassword : {TRUE},
   failedAttempts : 0..(MaxAttempts - 1),
   lockedUntil : {Null, <<LockTime>>}]

RaceStores == [RaceUsers -> RaceAccounts]

\* the two calls that can be under way
CallIds == {1, 2}

\* a call that has not been made
NoServiceCall ==
  [pc |-> "idle", kind |-> "", username |-> "", password |-> <<>>,
   loaded |-> <<>>, data |-> <<>>, threw |-> FALSE]

\* Faulty variant of localData: the call works on the store as it is now.
localDataFresh(loaded, stored) == stored

\* `const data = await loadUsers()`: after its later awaits the call works on
\* the data it loaded, whatever the file holds by then
localData(loaded, stored) == loaded

\* authenticate(username, password) is called: loadUsers() is awaited
CallAuthenticate(c, username, password) ==
  /\ call.slots[c].pc = "idle"
  /\ call' = [call EXCEPT !.slots[c] =
                [NoServiceCall EXCEPT !.pc = "load", !.kind = "authenticate",
                                      !.username = username,
                                      !.password = password]]
  /\ UNCHANGED <<authVars, actVars, histVars>>

\* changePassword(username, newPassword) is called: a password outside the
\* policy makes it throw, else loadUsers() is awaited
CallChangePassword(c, username, newPassword) ==
  /\ call.slots[c].pc = "idle"
  /\ call' = [call EXCEPT !.slots[c] =
                [NoServiceCall EXCEPT
                   !.pc = IF validatePasswordPolicy(newPassword)
                          THEN "load" ELSE "done",
                   !.threw = ~validatePasswordPolicy(newPassword),
                   !.kind = "changePassword",
                   !.username = username,
                   !.password = newPassword]]
  /\ UNCHANGED <<authVars, actVars, histVars>>

\* loadUsers() resolves.  authenticate returns at once for an unknown account,
\* one without a hash and a locked one, else it awaits argon2.verify;
\* changePassword awaits argon2.hash
LoadUsers(c) ==
  /\ call.slots[c].pc = "load"
  /\ LET s == call.slots[c] IN
       call' = [call EXCEPT !.slots[c] =
                  [s EXCEPT !.loaded = store,
                            !.pc = IF s.kind = "changePassword" THEN "hash"
                                   ELSE IF authenticate(store, s.username,
                                                        s.password, now).saved
                                   THEN "verify" ELSE "done"]]
  /\ UNCHANGED <<authVars, actVars, histVars>>

\* argon2.verify resolves: the loaded record is changed and saveUsers(data) is
\* awaited
VerifyDone(c) ==
  /\ call.slots[c].pc = "verify"
  /\ LET s == call.slots[c] IN
       call' = [call EXCEPT !.slots[c] =
                  [s EXCEPT !.pc = "save",
                            !.data = authenticate(localData(s.loaded, store),
                                                  s.username, s.password, now).data]]
  /\ UNCHANGED <<authVars, actVars, histVars>>

\* argon2.hash resolves: the hash is set on the loaded record and saveUsers(data)
\* is awaited; with no such record the assignment throws
HashDone(c) ==
  /\ call.slots[c].pc = "hash"
  /\ LET s == call.slots[c]
         change == changePassword(localData(s.loaded, store), s.username, s.password)
     IN call' = [call EXCEPT !.slots[c] =
                   [s EXCEPT !.pc = IF change.threw THEN "done" ELSE "save",
                             !.threw = change.threw,
                             !.data = change.data]]
  /\ UNCHANGED <<authVars, actVars, histVars>>

\* fs.writeFile of saveUsers(data) resolves: the file is the call's data
SaveUsers(c) ==
  /\ call.slots[c].pc = "save"
  /\ store' = call.slots[c].data
  /\ call' = [call EXCEPT !.slots[c].pc = "done"]
  /\ UNCHANGED <<now, server, bootPc, bootData, session, resp, streak,
                 actVars, histVars>>

RaceInit ==
  /\ store \in RaceStores
  /\ now = 0
  /\ server = "listening"
  /\ bootPc = "skipped"
  /\ bootData = Null
  /\ session = freshSession
  /\ resp = NoExchange
  /\ streak = [u \in Usernames |-> NoStreak]
  /\ call = [fn |-> "auth.service", base |-> store,
             slots |-> [c \in CallIds |-> NoServiceCall]]
  /\ ActIdle
  /\ HistIdle

RaceNext ==
  \E c \in CallIds :
    \/ \E username \in RaceUsers, password \in RacePasswords :
         CallAuthenticate(c, username, password)
    \/ \E username \in RaceUsers, newPassword \in RacePasswords :
         CallChangePassword(c, username, newPassword)
    \/ LoadUsers(c)
    \/ VerifyDone(c)
    \/ HashDone(c)
    \/ SaveUsers(c)

RaceSpec == RaceInit /\ [][RaceNext]_vars

----------------------------------------------------------------------------
(* Two activate-config requests under way at once *)

\* the two requests
ConcIds == {1, 2}

\* the bodies they come with: the two tunnel configurations
ConcBodies ==
  {[sourcePath |-> pathJoin(WgDir, FrConf)], [sourcePath |-> pathJoin(WgDir, JpConf)]}

ConcInit ==
  /\ AuthIdle
  /\ call = NoCall
  /\ env \in {e \in Environments : e.wireguardDir # Null}
  /\ disk \in Disks
  /\ act = [r \in ConcIds |-> NoRequest]
  /\ info = NoInfo
  /\ HistIdle

ConcNext ==
  \E r \in ConcIds :
    \/ \E body \in ConcBodies : Receive(r, body)
    \/ StatDone(r)
    \/ CopyDone(r)
    \/ WriteDone(r)
    \/ \E i \in DOMAIN act[r].slots : RestartDone(r, i)
    \/ Respond(r)

ConcSpec == ConcInit /\ [][ConcNext]_vars

----------------------------------------------------------------------------
(* auth.service.js on a record as users.json was provisioned *)

\* failedAttempts as users.json can hold it: a record without the field
\* (undefined), <<>> for null, <<n>> for the number n.  NaN, which a number
\* operation can give, is the pair below, no number; JSON.stringify writes it
\* as null.
NaN == <<0, 0>>

\* ToNumber of user.failedAttempts, as `++` applies it: undefined gives NaN,
\* null gives 0
toNumber(user) ==
  IF "failedAttempts" \notin DOMAIN user THEN NaN
  ELSE IF user.failedAttempts = <<>> THEN <<0>>
  ELSE user.failedAttempts

\* the record with failedAttempts set to a number, NaN or null
withAttempts(user, v) ==
  [f \in DOMAIN user \cup {"failedAttempts"} |->
     IF f = "failedAttempts" THEN v ELSE user[f]]

\* JSON.stringify of the record, read back: NaN is written as null
stringified(user) ==
  IF "failedAttempts" \in DOMAIN user /\ user.failedAttempts = NaN
  THEN withAttempts(user, <<>>)
  ELSE user

\* the !ok branch of authenticate on such a record, as saved: NaN compares false
\* with maxAttempts, a number is counted as onMismatch counts it
onMismatchProvisioned(user, t) ==
  IF toNumber(user) = NaN THEN stringified(withAttempts(user, NaN))
  ELSE LET counted == onMismatch(withAttempts(user, toNumber(user)[1]), t)
       IN withAttempts(counted, <<counted.failedAttempts>>)

\* the ok branch of authenticate on such a record
onMatchProvisioned(user) ==
  [withAttempts(user, <<0>>) EXCEPT !.lockedUntil = Null]

\* the admin record as provisioned: with a hash, with or without failedAttempts
ProvisionedRecords ==
  LET without == [passwordHash : {argon2Hash(DefaultPassword)},
                  mustChangePassword : BOOLEAN,
                  lockedUntil : {Null, <<LockTime>>}]
  IN without \cup
     {withAttempts(u, v) : u \in without,
                           v \in {<<>>} \cup {<<n>> : n \in 0..(MaxAttempts - 1)}}

\* a login with a password: refused on an active lock, else verified and the
\* record saved.  call.wrong counts the wrong passwords verified in a row since
\* the record was provisioned (call.provisioned)
LoginProvisioned(password) ==
  /\ call.wrong <= MaxAttempts
  /\ LET user == store[AdminUsername] IN
     IF isLocked(user, now) THEN UNCHANGED <<store, call>>
     ELSE IF ~argon2Verify(user.passwordHash, password)
     THEN /\ store' = [store EXCEPT ![AdminUsername] = onMismatchProvisioned(user, now)]
          /\ call' = [call EXCEPT !.wrong = @ + 1]
     ELSE /\ store' = [store EXCEPT ![AdminUsername] = onMatchProvisioned(user)]
          /\ call' = [call EXCEPT !.wrong = 0, !.reset = TRUE]
  /\ UNCHANGED <<now, server, bootPc, bootData, session, resp, streak,
                 actVars, histVars>>

\* time passes
TickProvisioned ==
  /\ now < MaxTime
  /\ now' = now + 1
  /\ UNCHANGED <<store, server, bootPc, bootData, session, resp, streak, call,
                 actVars, histVars>>

ProvisionInit ==
  /\ store \in [{AdminUsername} -> ProvisionedRecords]
  /\ now = 0
  /\ server = "listening"
  /\ bootPc = "skipped"
  /\ bootData = Null
  /\ session = freshSession
  /\ resp = NoExchange
  /\ streak = [u \in Usernames |-> NoStreak]
  /\ call = [fn |-> "authenticate", provisioned |-> store[AdminUsername],
             wrong |-> 0, reset |-> FALSE]
  /\ ActIdle
  /\ HistIdle

ProvisionNext ==
  \/ \E password \in RacePasswords : LoginProvisioned(password)
  \/ TickProvisioned

ProvisionSpec == ProvisionInit /\ [][ProvisionNext]_vars

----------------------------------------------------------------------------
(* POST /api/auth/change-password with a body that names an account *)

\* req.body: newPassword, and a username the handler does not read
ChangeBodies ==
  [newPassword : RacePasswords] \cup
  [username : RaceUsers, newPassword : RacePasswords]

\* the handler reads req.body.newPassword and nothing else of the body
ChangePasswordRequest(body) == ChangePassword(body.newPassword)

SessionInit ==
  /\ store \in RaceStores
  /\ now = 0
  /\ server = "listening"
  /\ bootPc = "skipped"
  /\ bootData = Null
  /\ session \in [user : RaceUsers \cup {NoUser}, mustChangePassword : BOOLEAN]
  /\ resp = NoExchange
  /\ streak = [u \in RaceUsers |-> NoStreak]
  /\ call = NoCall
  /\ ActIdle
  /\ HistIdle

SessionNext ==
  \/ \E body \in ChangeBodies : ChangePasswordRequest(body)
  \/ Logout

SessionSpec == SessionInit /\ [][SessionNext]_vars

----------------------------------------------------------------------------
(* What the claims speak of *)

IsLogin(x) == x.method = "POST" /\ x.path = "/api/auth/login"

\* the exchange is a login for an existing account: the record it read
LoginRead(x) == IsLogin(x) /\ x.loaded # <<>>

\* a lock is set on the record and t is before its end
LockActive(user, t) == user.lockedUntil # Null /\ t < user.lockedUntil[1]

\* the body a refused login carries when no lock is reported
Refused == [success |-> FALSE, locked |-> FALSE]

\* the routes behind the session gate that the claims name: the API and the home page
ProtectedRoutes ==
  {<<"GET", "/api/locations">>, <<"POST", "/api/activate-config">>, <<"GET", "/">>}

\* the answer is a handler run or a file served
Served(x) == x.kind \in {"handler", "file"}

----------------------------------------------------------------------------
(* C1 *)

\* C1: from a record with a hash, failedAttempts = 0 and no active lock, k wrong
\* passwords in a row leave failedAttempts = k and no lock while k < maxAttempts;
\* the maxAttempts-th sets lockedUntil after the time of that call and
\* failedAttempts to 0 and is itself answered 401 without locked; every login
\* made while that lock is active, whatever the password, is answered
\* 401 {success:false, locked:true} and leaves the record as it is.
C1_Lockout ==
  \A u \in DOMAIN store :
    LET user == store[u] IN
    /\ (streak[u] >= 1 /\ streak[u] < MaxAttempts) =>
          /\ user.failedAttempts = streak[u]
          /\ ~LockActive(user, now)
    /\ streak[u] >= MaxAttempts =>
          /\ user.failedAttempts = 0
          /\ user.lockedUntil # Null
    /\ (streak[u] = MaxAttempts /\ IsLogin(resp) /\ resp.input[1] = u) =>
          /\ user.lockedUntil[1] > resp.at
          /\ resp.status = 401
          /\ resp.body = Refused
    /\ (streak[u] = MaxAttempts + 1 /\ IsLogin(resp) /\ resp.input[1] = u) =>
          /\ resp.at < user.lockedUntil[1]
          /\ resp.status = 401
          /\ resp.body = [success |-> FALSE, locked |-> TRUE]
          /\ resp.loaded = <<user>>

\* C1 witness: the lock was set by maxAttempts wrong passwords in a row and a
\* login with the right password, made while it is active, was refused as locked.
C1_Witness ==
  \E u \in DOMAIN store :
    /\ streak[u] = MaxAttempts + 1
    /\ IsLogin(resp) /\ resp.input[1] = u
    /\ store[u].passwordHash # Null
    /\ store[u].passwordHash[2] = resp.input[2]
    /\ resp.body = [success |-> FALSE, locked |-> TRUE]

----------------------------------------------------------------------------
(* C2 *)

\* C2: a request to a protected route (locations, activate-config, the home
\* page) made by a session whose mustChangePassword flag is set is never served.
C2_MustChangeGate ==
  (resp.sess.mustChangePassword /\ <<resp.method, resp.path>> \in ProtectedRoutes)
    => ~Served(resp)

----------------------------------------------------------------------------
(* C3 *)

\* C3: a request of a session with no user, to a path that is not one of the
\* public ones (login, policy, change-password and version endpoints, login
\* page), runs no handler and gets no file: it is redirected to /login.
C3_AnonymousRedirect ==
  (resp.method # "" /\ resp.sess.user = NoUser /\ resp.path \notin PublicPaths)
    => (resp.kind = "redirect" /\ resp.target = "/login")

----------------------------------------------------------------------------
(* C4 *)

\* C4: GET /change-password.html is answered with the page only when the session
\* has a user and its mustChangePassword flag is set, and with a redirect to
\* /login in every other case.
C4_ChangePasswordPage ==
  (resp.method = "GET" /\ resp.path = "/change-password.html") =>
    IF resp.sess.user # NoUser /\ resp.sess.mustChangePassword
    THEN resp.kind = "file"
    ELSE resp.kind = "redirect" /\ resp.target = "/login"

----------------------------------------------------------------------------
(* C5 *)

\* C5: for an account with no stored hash, authenticate returns
\* {success:true, mustChangePassword:true, noPassword:true} for every password,
\* the empty one included, also while a lockedUntil of the record is in the
\* future, and writes nothing; the login that did so answered 200 with it.
C5_NoPassword ==
  /\ \A u \in DOMAIN store : \A password \in Passwords :
       store[u].passwordHash = Null =>
         LET auth == authenticate(store, u, password, now) IN
         /\ auth.result = [success |-> TRUE, mustChangePassword |-> TRUE,
                           noPassword |-> TRUE]
         /\ ~auth.saved
  /\ (LoginRead(resp) /\ resp.loaded[1].passwordHash = Null) =>
       /\ resp.status = 200
       /\ resp.body = [success |-> TRUE, mustChangePassword |-> TRUE,
                       noPassword |-> TRUE]

\* C5 witness: a login with the empty password on a hash-less account whose
\* lockedUntil was in the future was answered with noPassword.
C5_Witness ==
  /\ LoginRead(resp)
  /\ resp.input[2] = EmptyPassword
  /\ resp.loaded[1].passwordHash = Null
  /\ LockActive(resp.loaded[1], resp.at)
  /\ resp.status = 200
  /\ resp.body.noPassword

----------------------------------------------------------------------------
(* C6 *)

\* the record of an existing account has a hash, and this is its password
RightPassword(user, password) ==
  user.passwordHash # Null /\ user.passwordHash[2] = password

\* C6: a login with the right password on an account whose lockedUntil is set
\* and in the past is answered 200 success, and the record it leaves in the
\* store has failedAttempts = 0 and lockedUntil = null.
C6_LockExpiry ==
  [][\A u \in Usernames, password \in Passwords :
       ( /\ Login(u, password)
         /\ userExists(store, u)
         /\ RightPassword(store[u], password)
         /\ store[u].lockedUntil # Null
         /\ store[u].lockedUntil[1] < now )
       => ( /\ resp'.status = 200
            /\ resp'.body.success
            /\ store'[u].failedAttempts = 0
            /\ store'[u].lockedUntil = Null )]_vars

\* C6 witness: a login with the right password met a record with failed
\* attempts and an expired lock, succeeded, and the stored record is cleared.
C6_Witness ==
  /\ LoginRead(resp)
  /\ RightPassword(resp.loaded[1], resp.input[2])
  /\ resp.loaded[1].lockedUntil # Null
  /\ resp.loaded[1].lockedUntil[1] < resp.at
  /\ resp.loaded[1].failedAttempts > 0
  /\ resp.status = 200
  /\ store[resp.input[1]].failedAttempts = 0
  /\ store[resp.input[1]].lockedUntil = Null

----------------------------------------------------------------------------
(* C7 *)

\* C7: in every store, for an account with a hash and no active lock, the login
\* response (status and body) to a wrong password equals the login response to
\* an unknown username, both being 401 {success:false, locked:false}, and both
\* leave the session as it was; this includes the wrong password that sets the
\* lock.
C7_NoEnumeration ==
  \A u \in DOMAIN store : \A password \in Passwords, other \in Passwords :
    ( /\ store[u].passwordHash # Null
      /\ ~LockActive(store[u], now)
      /\ ~RightPassword(store[u], password) )
    => LET wrong == authenticate(store, u, password, now).result
           unknown == authenticate(store, UnknownUsername, other, now).result
       IN /\ loginResponse(wrong) = loginResponse(unknown)
          /\ loginResponse(unknown) = [status |-> 401, body |-> Refused]
          /\ loginSession(session, u, wrong) = session
          /\ loginSession(session, UnknownUsername, unknown) = session

\* C7 witness: the wrong password that set the lock was answered 401 with
\* locked:false.
C7_Witness ==
  /\ LoginRead(resp)
  /\ resp.loaded[1].passwordHash # Null
  /\ ~RightPassword(resp.loaded[1], resp.input[2])
  /\ ~LockActive(resp.loaded[1], resp.at)
  /\ resp.loaded[1].failedAttempts = MaxAttempts - 1
  /\ LockActive(store[resp.input[1]], now)
  /\ resp.status = 401
  /\ resp.body = Refused

----------------------------------------------------------------------------
(* C8 *)

\* C8: a bootstrap call that finds the admin record with a hash ends without
\* writing (the store is what it was, whole), and the bootstrap writes the store
\* only when the record it loaded had no hash; so a second run after a first
\* keeps the hash the first one set.
C8_BootstrapIdempotent ==
  [][ /\ ( /\ BootLoad
           /\ userExists(store, AdminUsername)
           /\ store[AdminUsername].passwordHash # Null )
         => (bootPc' = "skipped" /\ store' = store)
      /\ BootSave => bootData[AdminUsername].passwordHash = Null ]_vars

\* C8 witness: a bootstrap run returned without writing on a store whose admin
\* hash is the one an earlier run had set.
C8_Witness ==
  /\ bootPc = "skipped"
  /\ store[AdminUsername].passwordHash = argon2Hash(DefaultPassword)

----------------------------------------------------------------------------
(* C9 *)

\* the admin record as the bootstrap writes it
Bootstrapped(user) ==
  /\ user.passwordHash = argon2Hash(DefaultPassword)
  /\ user.mustChangePassword

\* a login with the default password answered 200 with mustChangePassword:true
\* that leaves the session with the admin user and the flag set
DefaultLoginSucceeds ==
  /\ resp'.status = 200
  /\ resp'.body = [success |-> TRUE, mustChangePassword |-> TRUE,
                   noPassword |-> FALSE]
  /\ session' = [user |-> AdminUsername, mustChangePassword |-> TRUE]

\* C9 as stated: the bootstrap's write leaves the admin record with the hash of
\* the default password and mustChangePassword = true, and a login with the
\* default password on such a record succeeds with mustChangePassword:true and
\* flags the session.
C9_BootstrapThenLogin ==
  [][ /\ BootSave => Bootstrapped(store'[AdminUsername])
      /\ ( /\ Login(AdminUsername, DefaultPassword)
           /\ userExists(store, AdminUsername)
           /\ Bootstrapped(store[AdminUsername]) )
         => DefaultLoginSucceeds ]_vars

\* C9 amended: the same, for a login made while no lock of the record is active
\* (the bootstrap leaves a lockedUntil of the hash-less record in place).
C9_BootstrapThenLoginUnlocked ==
  [][ /\ BootSave => Bootstrapped(store'[AdminUsername])
      /\ ( /\ Login(AdminUsername, DefaultPassword)
           /\ userExists(store, AdminUsername)
           /\ Bootstrapped(store[AdminUsername])
           /\ ~LockActive(store[AdminUsername], now) )
         => DefaultLoginSucceeds ]_vars

\* C9 witness: after the bootstrap wrote the store, a login with the default
\* password succeeded and the session is flagged.
C9_Witness ==
  /\ bootPc = "saved"
  /\ LoginRead(resp)
  /\ resp.input = <<AdminUsername, DefaultPassword>>
  /\ Bootstrapped(resp.loaded[1])
  /\ resp.status = 200
  /\ resp.body.mustChangePassword = TRUE
  /\ session = [user |-> AdminUsername, mustChangePassword |-> TRUE]

----------------------------------------------------------------------------
(* C10 *)

\* C10: with no admin record in the store the server never listens and never
\* answers a request, and the store stays as it is.
C10_NoAdminNoServer ==
  ~userExists(store, AdminUsername) =>
    /\ server # "listening"
    /\ resp = NoExchange

----------------------------------------------------------------------------
(* C11 *)

IsChangePassword(x) ==
  x.method = "POST" /\ x.path = "/api/auth/change-password"

\* C11: a change-password call for the session's account with a password that
\* fails the policy ends in the policy-violation error and leaves the store as
\* it was; with a password that meets the policy, the store it leaves holds for
\* that account a hash that verifies the new password and mustChangePassword =
\* false, and holds them when the response is sent.
C11_ChangePassword ==
  [][\A newPassword \in Passwords :
       (ChangePassword(newPassword) /\ session.user # NoUser)
       => IF ~validatePasswordPolicy(newPassword)
          THEN /\ resp'.status = 400
               /\ resp'.body = [success |-> FALSE,
                                error |-> "Password policy violation"]
               /\ store' = store
          ELSE /\ resp'.status = 302
               /\ argon2Verify(store'[session.user].passwordHash, newPassword)
               /\ ~store'[session.user].mustChangePassword]_vars

\* C11 witness: a change-password call met an account that held the hash of
\* another password and the flag, and the store now holds the hash of the new
\* password and no flag.
C11_Witness ==
  /\ IsChangePassword(resp)
  /\ resp.status = 302
  /\ resp.loaded[1].mustChangePassword
  /\ resp.loaded[1].passwordHash = argon2Hash(DefaultPassword)
  /\ resp.input[1] # DefaultPassword
  /\ argon2Verify(store[resp.sess.user].passwordHash, resp.input[1])
  /\ ~store[resp.sess.user].mustChangePassword

----------------------------------------------------------------------------
(* C12 *)

\* C12: a change-password request of a session with no user is answered 401 and
\* leaves the store and the session as they were, while the auth middleware
\* lets the path through for such a session.
C12_ChangePasswordUnauthenticated ==
  [][\A newPassword \in Passwords :
       (ChangePassword(newPassword) /\ session.user = NoUser)
       => /\ resp'.status = 401
          /\ resp'.body = [success |-> FALSE, error |-> "Unauthorized"]
          /\ store' = store
          /\ session' = session
          /\ authMiddleware(session, "/api/auth/change-password") = Next_]_vars

\* C12 witness: a session with no user asked for a password that meets the
\* policy, on a store that holds the admin account, and was answered 401.
C12_Witness ==
  /\ IsChangePassword(resp)
  /\ resp.sess.user = NoUser
  /\ validatePasswordPolicy(resp.input[1])
  /\ userExists(store, AdminUsername)
  /\ resp.status = 401

----------------------------------------------------------------------------
(* C13 *)

\* what the claim states of a password under a policy: it is long enough, and
\* for each class the policy requires it holds a character of that class
MeetsPolicy(policy, password) ==
  /\ Len(password) >= policy.minLength
  /\ policy.requireUppercase => \E i \in DOMAIN password : password[i] \in UpperChars
  /\ policy.requireLowercase => \E i \in DOMAIN password : password[i] \in LowerChars
  /\ policy.requireDigit => \E i \in DOMAIN password : password[i] \in DigitChars
  /\ policy.requireSpecial => \E i \in DOMAIN password : password[i] \in SpecialChars

\* C13: for every candidate password and every policy configuration,
\* validatePasswordPolicy returns true if and only if the password's length is
\* at least minLength and, for each enabled requirement (uppercase, lowercase,
\* digit, special), the password holds at least one character of that class.
C13_PolicyIff ==
  (call.fn = "validatePasswordPolicy" /\ call.returned)
  => (call.result <=> MeetsPolicy(call.policy, call.password))

\* C13 witness: with every requirement enabled, a password of exactly minLength
\* with one character of each class was accepted.
C13_Witness ==
  /\ call.fn = "validatePasswordPolicy"
  /\ call.returned
  /\ call.policy.requireUppercase /\ call.policy.requireLowercase
  /\ call.policy.requireDigit /\ call.policy.requireSpecial
  /\ Len(call.password) = call.policy.minLength
  /\ call.result

----------------------------------------------------------------------------
(* C14 *)

\* C14: a login changes the session only when authenticate returns success, and
\* then the session holds the username and the mustChangePassword flag that
\* authenticate returned, and the answer is 200; a login that fails (wrong
\* password, unknown username, active lock) is answered 401 and leaves the
\* session, its user included, as it was.  A logout leaves a session with no
\* user, and current-user answers such a session 401.
C14_SessionOnLogin ==
  [][ /\ \A username \in LoginNames, password \in Passwords :
           Login(username, password) =>
             LET result == authenticate(store, username, password, now).result IN
             IF result.success
             THEN /\ resp'.status = 200
                  /\ session' = [user |-> username,
                                  mustChangePassword |-> result.mustChangePassword]
             ELSE /\ resp'.status = 401
                  /\ session' = session
      /\ Logout => session' = freshSession
      /\ (Me /\ session.user = NoUser) => resp'.status = 401 ]_vars

\* C14 witness: a session that held a user made a login that failed; it was
\* answered 401 and the session still holds that user.
C14_Witness ==
  /\ IsLogin(resp)
  /\ resp.sess.user = AdminUsername
  /\ resp.input[1] = UnknownUsername
  /\ resp.status = 401
  /\ session = resp.sess

\* a logout answered a session that held a user, and the session holds none
C14_WitnessLogout ==
  /\ resp.method = "POST" /\ resp.path = "/api/auth/logout"
  /\ resp.sess.user # NoUser
  /\ session.user = NoUser

----------------------------------------------------------------------------
(* C15 *)

\* the restarts of a response name this service with this status
Reports(res, containerName, status) ==
  \E k \in DOMAIN res.restarts :
    /\ res.restarts[k].containerName = containerName
    /\ res.restarts[k].status = status

\* C15: a request whose source passed validation, whose copy and whose state
\* write succeeded (it waits for its restarts) is answered 200 success:true
\* whatever the restarts did, and the response lists every service whose restart
\* failed with status 'error' and every one whose restart succeeded with status
\* 'success'.
C15_PartialRestartFailure ==
  [][\A r \in ActIds :
       (act[r].pc = "restarts" /\ act'[r].pc = "done")
       => /\ act'[r].status = 200
          /\ act'[r].res.success
          /\ \A i \in DOMAIN act[r].slots :
               act[r].slots[i] \in {"success", "error"}
               => Reports(act'[r].res, act[r].names[i], act[r].slots[i])]_vars

\* C15 witness: of two services the restart of one failed and of the other
\* succeeded, and the response is success:true with one entry of each status.
C15_Witness ==
  \E r \in ActIds :
    /\ act[r].pc = "done"
    /\ act[r].slots = <<"error", "success">>
    /\ act[r].status = 200
    /\ act[r].res.success
    /\ Reports(act[r].res, <<"g">>, "error")
    /\ Reports(act[r].res, <<"q">>, "success")

----------------------------------------------------------------------------
(* C16 *)

\* the places of the commas of a list, with the places before and after it
Commas(s) == {0, Len(s) + 1} \cup {i \in DOMAIN s : s[i] = ","}

\* the k-th piece of the list: what stands between the k-th of these places and
\* the next
Piece(s, k) ==
  LET from == CHOOSE a \in Commas(s) :
                Cardinality({b \in Commas(s) : b < a}) = k - 1
      to == CHOOSE a \in Commas(s) :
              Cardinality({b \in Commas(s) : b < a}) = k
  IN SubSeq(s, from + 1, to - 1)

\* a piece without the white space around it
Stripped(p) ==
  LET inked == {i \in DOMAIN p : p[i] # " "} IN
  IF inked = {} THEN <<>>
  ELSE SubSeq(p, CHOOSE i \in inked : \A j \in inked : i <= j,
                 CHOOSE i \in inked : \A j \in inked : i >= j)

NonEmpty(x) == x # <<>>

\* the non-empty trimmed identifiers of a comma-separated list, in its order
Identifiers(s) ==
  SelectSeq([k \in 1..(Cardinality(Commas(s)) - 1) |-> Stripped(Piece(s, k))],
            NonEmpty)

\* the services a response's restarts name, in order
Restarted(res) == [k \in DOMAIN res.restarts |-> res.restarts[k].containerName]

\* the request was answered 200
Succeeded(a) == a.pc = "done" /\ a.status = 200

\* C16: the restarts requested by the fan-out, and the entries of restarts in a
\* successful activation, are the non-empty trimmed identifiers of the
\* comma-separated list, one for each and in the order of the list, with none for
\* an empty identifier; each is requested once, whatever the outcome of any
\* other restart (an identifier the list holds twice counts twice).
C16_OneRestartPerListItem ==
  \A r \in ActIds :
    LET ids == Identifiers(env.containersToRestart) IN
    /\ act[r].pc = "restarts" => act[r].requested = ids
    /\ Succeeded(act[r]) =>
         /\ Restarted(act[r].res) = ids
         /\ act[r].requested = ids

\* C16 witness: of the list " g ,,q " the restart of g failed; restarts holds g
\* and q, and both were requested.
C16_Witness ==
  \E r \in ActIds :
    /\ Succeeded(act[r])
    /\ env.containersToRestart = <<" ", "g", " ", ",", ",", "q", " ">>
    /\ act[r].slots = <<"error", "none", "success">>
    /\ Restarted(act[r].res) = <<<<"g">>, <<"q">>>>
    /\ act[r].requested = <<<<"g">>, <<"q">>>>

----------------------------------------------------------------------------
(* C17 *)

\* C17: once an activation has been answered 200, and until the next one is
\* asked for, the active slot holds the bytes of the source file, and a
\* current-config-info query then made is answered with name = the base name of
\* the source path (or 500, when fs.stat of the slot fails).
C17_ActivationRoundTrip ==
  [][\A r \in ActIds :
       Succeeded(act[r]) =>
         LET source == act[r].body.sourcePath
             slot == wg0Path(env.wireguardDir)
         IN /\ isFile(disk, slot)
            /\ disk[slot].content = disk[source].content
            /\ ConfigInfo =>
                 \/ info' = [status |-> 200,
                             body |-> [success |-> TRUE,
                                       name |-> pathBasename(source)]]
                 \/ info' = [status |-> 500,
                             body |-> [success |-> FALSE,
                                       reason |-> "read_error"]]]_vars

\* C17 witness: fr.conf was activated; the slot holds its bytes and the query
\* was answered with its name.
C17_Witness ==
  \E r \in ActIds :
    /\ Succeeded(act[r])
    /\ act[r].body.sourcePath = pathJoin(WgDir, FrConf)
    /\ disk[wg0Path(WgDir)].content = Bytes("fr")
    /\ info = [status |-> 200, body |-> [success |-> TRUE, name |-> FrConf]]

----------------------------------------------------------------------------
(* C18 *)

\* the body names no source that is an existing regular file
InvalidSource(f, body) ==
  IF noSourcePath(body) THEN TRUE ELSE ~isFile(f, body.sourcePath)

\* C18: an activate-config request whose sourcePath is missing, empty, names
\* nothing that exists or names something that is not a regular file is answered
\* with a status of the 4xx class, never 5xx.
C18_InvalidSourceIs4xx ==
  \A r \in ActIds :
    (act[r].pc = "done" /\ InvalidSource(disk, act[r].body))
    => (act[r].status >= 400 /\ act[r].status <= 499)

----------------------------------------------------------------------------
(* C19 *)

\* the copy of the request's source to the active slot has been made
Promoted(a) == a.pc \in {"write", "restarts"} \/ Succeeded(a)

\* C19: the activation endpoint copies to the active slot only a file that the
\* resolver reports as an available location (a .conf file of the configuration
\* directory matching a declared location); a request naming any other existing
\* regular file is rejected and changes neither the slot nor the state file.
C19_OnlyAvailableLocations ==
  \A r \in ActIds :
    Promoted(act[r]) => act[r].body.sourcePath \in availablePaths(env, disk)

----------------------------------------------------------------------------
(* C20 *)

\* some file's whole name, extension included, equals keywords[0] + ".conf"
\* when case is ignored
NamedLike(files, data) ==
  \E file \in files : toLowerCase(file) = toLowerCase(data.keywords[1] \o DotConf)

\* C20: for every declared location and every set of file names of the
\* directory, isAvailable is true if and only if the location declares at least
\* 2 keywords and some file's name equals keywords[0] + ".conf" under a
\* case-insensitive comparison of the whole name, the extension included.
C20_AvailableIff ==
  (call.fn = "locations" /\ call.returned)
  => (call.result <=>
        IF "keywords" \in DOMAIN call.data
        THEN Len(call.data.keywords) >= 2 /\ NamedLike(call.files, call.data)
        ELSE FALSE)

----------------------------------------------------------------------------
(* C21 *)

\* C21: when the configuration directory cannot be listed (no WIREGUARD_DIR, or
\* a directory fs.readdir does not find) and the metadata is read, the locations
\* endpoint answers 200 success with one record per declared location, in the
\* order of the metadata, each with isAvailable = false, fileName = null and
\* fullPath = null.
C21_UnlistableDirectory ==
  ( /\ call.fn = "GET /api/locations"
    /\ call.returned
    /\ call.metadata.readable
    /\ (call.wireguardDir = Null \/ ~call.dir.listable) )
  => /\ call.result.status = 200
     /\ call.result.body.success
     /\ DOMAIN call.result.body.locations = DOMAIN call.metadata.entries
     /\ \A k \in DOMAIN call.metadata.entries :
          LET location == call.result.body.locations[k] IN
          /\ location.countryCode = call.metadata.entries[k][1]
          /\ ~location.isAvailable
          /\ location.fileName = Null
          /\ location.fullPath = Null

\* C21 witness: with WIREGUARD_DIR set and the directory absent, the metadata
\* jp, de, fr was answered with three unavailable records in that order.
C21_Witness ==
  /\ call.fn = "GET /api/locations"
  /\ call.returned
  /\ call.wireguardDir = WgDir
  /\ ~call.dir.listable
  /\ call.result.status = 200
  /\ [k \in DOMAIN call.result.body.locations |->
        call.result.body.locations[k].countryCode] = <<"jp", "de", "fr">>
  /\ \A k \in DOMAIN call.result.body.locations :
       ~call.result.body.locations[k].isAvailable

----------------------------------------------------------------------------
(* C22 *)

\* the list the history file holds; the empty list when there is no file
Persisted(f) ==
  IF exists(f, historyPath) THEN f[historyPath].content[2] ELSE <<>>

\* the n most recent of the operations 1..n, the newest first, at most 20
MostRecent(n) ==
  [k \in 1..(IF n < HistoryCap THEN n ELSE HistoryCap) |-> n - k + 1]

\* C22: after n appends from an empty history, the file being written by these
\* appends alone and the save of the n-th answered, the persisted history is
\* the min(n, 20) most recent operations, the newest first; and whatever the
\* answers to the saves, such a file never holds more than 20 entries.
C22_HistoryCap ==
  browser.alone =>
    /\ Len(Persisted(disk)) <= HistoryCap
    /\ browser.saved => Persisted(disk) = MostRecent(browser.appended)

\* C22 witness: after 22 appends the file holds 20 entries, from operation 22
\* down to operation 3.
C22_Witness ==
  /\ browser.alone
  /\ browser.saved
  /\ browser.appended = HistoryCap + 2
  /\ Len(Persisted(disk)) = HistoryCap
  /\ Persisted(disk)[1] = HistoryCap + 2
  /\ Persisted(disk)[HistoryCap] = 3

----------------------------------------------------------------------------
(* C23 *)

\* C23: the storage not failing, a GET with nothing persisted answers the empty
\* list; after a POST with a list, a GET answers exactly that list, whatever
\* was persisted before; a DELETE succeeds whether or not a history is
\* persisted, so also right after a DELETE, and a GET after it answers the
\* empty list.
C23_HistoryRoundTrip ==
  [][/\ (GetHistory(FALSE) /\ ~exists(disk, historyPath))
          => hres'.status = 200 /\ hres'.body = <<>>
     /\ \A body \in HistoryBodies :
          (~noHistory(body) /\ PostHistory(body, FALSE))
            => /\ hres'.status = 200
               /\ getHistory(disk', FALSE) = [status |-> 200, body |-> body.history]
     /\ DeleteHistory(FALSE)
          => /\ hres'.status = 200
             /\ hres'.body = [success |-> TRUE]
             /\ deleteHistory(disk', FALSE).status = 200
             /\ getHistory(disk', FALSE) = [status |-> 200, body |-> <<>>]]_vars

\* C23 witness: a DELETE of a history that is not persisted, after appends, is
\* answered with success.
C23_Witness ==
  /\ hres.method = "DELETE"
  /\ ~hres.existed
  /\ hres.status = 200
  /\ browser.appended > 0
  /\ ~exists(disk, historyPath)

\* C23 witness: a POST has replaced a longer persisted list.
C23_WitnessReplaced ==
  /\ hres.method = "POST"
  /\ hres.existed
  /\ hres.status = 200
  /\ hres.sent = [history |-> <<101>>]
  /\ Len(browser.operationHistory) > 1
  /\ getHistory(disk, FALSE).body = <<101>>

----------------------------------------------------------------------------
(* C24 *)

\* C24: a failure to read or to write the credential store during a login or a
\* change of password is reported with a 5xx status.
C24_StorageFailureIs5xx ==
  [][/\ \A username \in LoginNames, password \in Passwords,
           loadError \in BOOLEAN, saveError \in BOOLEAN :
          (/\ loginStorageFailed(store, username, password, now, loadError, saveError)
           /\ LoginFault(username, password, loadError, saveError))
            => resp'.status >= 500
     /\ \A newPassword \in Passwords, loadError \in BOOLEAN, saveError \in BOOLEAN :
          (/\ session.user # NoUser
           /\ changeStorageFailed(store, session.user, newPassword, loadError, saveError)
           /\ ChangePasswordFault(newPassword, loadError, saveError))
            => resp'.status >= 500]_vars

----------------------------------------------------------------------------
(* C25 *)

\* C25: httpsEnabled is true, and the session cookie Secure with SameSite=None,
\* exactly when HTTPS_ENABLED is 'true'; with 'false', or with the variable
\* unset, the cookie is not Secure and its SameSite is Lax.
C25_HttpsIffTrue ==
  call.fn = "session" =>
    LET asked == envIs(call.processEnv, "HTTPS_ENABLED", "true")
        off == \/ "HTTPS_ENABLED" \notin DOMAIN call.processEnv
               \/ envIs(call.processEnv, "HTTPS_ENABLED", "false")
    IN /\ call.security.httpsEnabled <=> asked
       /\ (call.options.cookie.secure /\ call.options.cookie.sameSite = "none")
            <=> asked
       /\ off => /\ ~call.options.cookie.secure
                 /\ call.options.cookie.sameSite = "lax"

----------------------------------------------------------------------------
(* C26 *)

\* C26: the save of ensureAdminPasswordInitialized never replaces a hash that
\* the store holds: a hash that a changePassword for the admin persisted
\* between the bootstrap's load and its save is still the stored hash after it.
C26_BootstrapKeepsHash ==
  [][(BootSave /\ store[AdminUsername].passwordHash # Null)
       => store'[AdminUsername].passwordHash = store[AdminUsername].passwordHash]_vars

----------------------------------------------------------------------------
(* C27 *)

\* the store after authenticate for the first call, then for the second, from
\* the store the two calls started on
OneAfterTheOther(first, second) ==
  authenticate(authenticate(call.base, first.username, first.password, now).data,
               second.username, second.password, now).data

\* the counters of an account record
Counters(user) == <<user.failedAttempts, user.lockedUntil>>

\* C27: when an authenticate call for one user and an authenticate call for a
\* different user have both finished, however their steps were interleaved,
\* the persisted failedAttempts and lockedUntil of both users are those of the
\* two calls run one after the other.
C27_DifferentUsersIndependent ==
  LET a == call.slots[1]
      b == call.slots[2]
  IN (/\ a.pc = "done" /\ a.kind = "authenticate"
      /\ b.pc = "done" /\ b.kind = "authenticate"
      /\ a.username # b.username)
       => \A u \in {a.username, b.username} :
            /\ Counters(store[u]) = Counters(OneAfterTheOther(a, b)[u])
            /\ Counters(store[u]) = Counters(OneAfterTheOther(b, a)[u])

----------------------------------------------------------------------------
(* C28 *)

\* both calls are authenticate calls for one account that loaded the record
\* with a hash, unlocked and with no failed attempt, verified a wrong password
\* against it and saved
BothFailedFromZero ==
  LET a == call.slots[1]
      b == call.slots[2]
  IN /\ a.pc = "done" /\ a.kind = "authenticate"
     /\ b.pc = "done" /\ b.kind = "authenticate"
     /\ a.username = b.username
     /\ \A s \in {a, b} :
          /\ s.loaded # <<>>
          /\ s.loaded[s.username].passwordHash # Null
          /\ ~isLocked(s.loaded[s.username], now)
          /\ s.loaded[s.username].failedAttempts = 0
          /\ ~argon2Verify(s.loaded[s.username].passwordHash, s.password)

\* C28: two failed logins for one account that both loaded the record before
\* either saved lose an increment: both verified a wrong password, and the
\* persisted failedAttempts is 1 more than the loaded one, not 2, so with
\* maxAttempts 2 the account is not locked after two wrong verifications.
C28_LostIncrement ==
  BothFailedFromZero =>
    LET u == call.slots[1].username IN
    /\ store[u].failedAttempts = 1
    /\ MaxAttempts = 2 => store[u].lockedUntil = Null

\* C28 witness: after the two wrong verifications the account is open to a
\* third one, which is one more than maxAttempts.
C28_Witness ==
  /\ BothFailedFromZero
  /\ MaxAttempts = 2
  /\ store[call.slots[1].username].failedAttempts = 1
  /\ authenticate(store, call.slots[1].username, GoodPassword, now).saved
  /\ authenticate(store, call.slots[1].username, GoodPassword, now).result
       = mismatchResult

----------------------------------------------------------------------------
(* C29 *)

\* C29: when a changePassword that completed and an authenticate call, for the
\* same user or another, have both finished, the stored hash of the changed
\* account is the new hash and its mustChangePassword is false.
C29_ChangeSurvivesAuthenticate ==
  \A c \in CallIds : \A d \in CallIds \ {c} :
    (/\ call.slots[c].pc = "done"
     /\ call.slots[c].kind = "changePassword"
     /\ ~call.slots[c].threw
     /\ call.slots[d].pc = "done"
     /\ call.slots[d].kind = "authenticate")
      => /\ store[call.slots[c].username].passwordHash
              = argon2Hash(call.slots[c].password)
         /\ ~store[call.slots[c].username].mustChangePassword

----------------------------------------------------------------------------
(* C30 *)

\* the steps of request r in their order: a request moves one step forward, or
\* ends with a response
StepsInOrder(r) ==
  act'[r].pc # act[r].pc =>
    /\ act'[r].pc = "stat" => act[r].pc \in {"idle", "done"}
    /\ act'[r].pc = "copy" => act[r].pc = "stat"
    /\ act'[r].pc = "write" =>
         /\ act[r].pc = "copy"
         /\ disk'[wg0Path(env.wireguardDir)].content
              = disk'[act[r].body.sourcePath].content
    /\ act'[r].pc = "restarts" => act[r].pc = "write"

\* restarts are requested by the step that wrote the state, with the slot
\* holding the source's bytes
RestartsAfterWrite(r) ==
  (act'[r].requested # <<>> /\ act'[r].requested # act[r].requested) =>
    /\ act[r].pc = "write"
    /\ disk'[wg0Path(env.wireguardDir)].content
         = disk'[act[r].body.sourcePath].content
    /\ isFile(disk', statePath)
    /\ disk'[statePath].content
         = StateBytes(pathBasename(act[r].body.sourcePath))

\* the write of the state fails after the copy: the request passes from the
\* write to a 500 response
WriteFails(r) ==
  /\ act[r].pc = "write"
  /\ act'[r].pc = "done"
  /\ act'[r].status = 500

\* what a failed write of the state leaves apart from the recorded name: a
\* failure response, no restart requested, the slot with the source's bytes
FailedWriteLeaves(r) ==
  /\ act'[r].res.success = FALSE
  /\ act'[r].requested = <<>>
  /\ disk'[wg0Path(env.wireguardDir)].content
       = disk'[act[r].body.sourcePath].content

\* C30 as stated: the steps of an activation are ordered validate, copy, write
\* of the state, restarts; no restart is requested unless copy and write
\* succeeded; and when the write fails after the copy, the response is a
\* failure, no restart is requested, the slot holds the new content and the
\* recorded activeConfigName keeps its previous value.
C30_OrderedAndStaleName ==
  [][\A r \in ActIds :
       (act'[r] # act[r]) =>
         /\ StepsInOrder(r)
         /\ RestartsAfterWrite(r)
         /\ WriteFails(r) =>
              /\ FailedWriteLeaves(r)
              /\ activeConfigName(disk') = activeConfigName(disk)]_vars

\* C30, amended: as above, but after the failed write the recorded
\* activeConfigName is its previous value or, the state file having been left
\* empty, none, for which current-config-info reports the default 'wg0.conf'.
C30_OrderedAndStaleOrNoName ==
  [][\A r \in ActIds :
       (act'[r] # act[r]) =>
         /\ StepsInOrder(r)
         /\ RestartsAfterWrite(r)
         /\ WriteFails(r) =>
              /\ FailedWriteLeaves(r)
              /\ activeConfigName(disk') \in {activeConfigName(disk), Wg0Conf}
              /\ \/ disk' = disk
                 \/ parseState(disk'[statePath].content).threw]_vars

\* C30 witness: the write of the state failed after the copy of fr.conf: a 500
\* response, no restart, the slot with fr.conf's bytes and the recorded name
\* still jp.conf, with dependents configured.
C30_Witness ==
  \E r \in ActIds :
    /\ act[r].pc = "done"
    /\ act[r].status = 500
    /\ act[r].res = Failure("writeFile")
    /\ act[r].requested = <<>>
    /\ env.containersToRestart # <<>>
    /\ act[r].body = [sourcePath |-> pathJoin(WgDir, FrConf)]
    /\ disk[wg0Path(env.wireguardDir)].content = Bytes("fr")
    /\ activeConfigName(disk) = JpConf

----------------------------------------------------------------------------
(* C31 *)

\* the slots of the fan-out for which a restart is asked
Asked(a) == {i \in DOMAIN a.slots : a.slots[i] # "none"}

\* C31: when the first restart of a fan-out ends, every restart of it has been
\* requested; the response of such an activation is composed by a step that
\* finds every requested restart ended, with success or with an error, and it
\* lists one entry for each; and, every restart call ending, a request that
\* waits for its restarts gets its response.
C31_FanOutThenJoin ==
  /\ [][\A r \in ActIds :
          /\ (act[r].pc = "restarts" /\ act'[r].slots # act[r].slots)
               => /\ Len(act[r].requested) = Cardinality(Asked(act[r]))
                  /\ act'[r].requested = act[r].requested
          /\ (act[r].pc = "restarts" /\ act'[r].pc = "done")
               => /\ \A i \in Asked(act[r]) : act[r].slots[i] \in {"success", "error"}
                  /\ Len(act'[r].res.restarts) = Len(act[r].requested)]_vars
  /\ \A r \in ActIds : (act[r].pc = "restarts") ~> (act[r].pc = "done")

\* C31 witness: a response composed after two restarts, the first of which
\* failed and the second of which succeeded.
C31_Witness ==
  \E r \in ActIds :
    /\ act[r].pc = "done"
    /\ act[r].status = 200
    /\ Len(act[r].requested) = 2
    /\ act[r].slots = <<"error", "success">>
    /\ Len(act[r].res.restarts) = 2

----------------------------------------------------------------------------
(* C32 *)

\* the request fails validation: no sourcePath, a path that does not exist or
\* is no regular file, or no configuration directory
FailsValidation(e, f, body) ==
  \/ noSourcePath(body)
  \/ ~isFile(f, body.sourcePath)
  \/ e.wireguardDir = Null

\* C32: a request that fails validation is answered by the step that finds it
\* so, with an error status; up to and with that step the disk (the active slot
\* and the state file with it) is unchanged and no restart is requested; no
\* such request reaches the copy.
C32_InvalidChangesNothing ==
  [][\A r \in ActIds :
       /\ (act[r].pc \in {"idle", "done", "stat"} /\ act'[r] # act[r])
            => /\ disk' = disk
               /\ act'[r].requested = <<>>
               /\ FailsValidation(env, disk, act'[r].body)
                    => /\ act'[r].pc = "stat" \/ act'[r].status >= 400
                       /\ act[r].pc = "stat" => act'[r].pc = "done"
       /\ (act'[r].pc = "copy" /\ act[r].pc # "copy")
            => ~FailsValidation(env, disk, act[r].body)]_vars

\* C32 witness: a request for a directory was refused with a slot and a state
\* on the disk and dependents configured.
C32_Witness ==
  \E r \in ActIds :
    /\ act[r].pc = "done"
    /\ act[r].body = [sourcePath |-> WgDir]
    /\ act[r].status = 500
    /\ act[r].requested = <<>>
    /\ env.containersToRestart # <<>>
    /\ isFile(disk, wg0Path(WgDir))
    /\ disk[wg0Path(WgDir)].content = Bytes("old")
    /\ activeConfigName(disk) = JpConf

----------------------------------------------------------------------------
(* C33 *)

\* the state file of f, none when there is no such file
StateFile(f) == IF exists(f, statePath) THEN <<f[statePath]>> ELSE <<>>

\* the name the state file records, the default when it records none
RecordedName(f) ==
  IF \E p \in SourcePaths : p # <<>> /\
        StateFile(f) = <<RegularFile(StateBytes(pathBasename(p)))>>
  THEN f[statePath].content[2]
  ELSE Wg0Conf

\* C33: the state file changes only in the step of an activation that follows
\* its successful copy (the slot holds the source's bytes); a
\* current-config-info answer, the configuration directory being set, is
\* {success:false, reason:'not_found'} when the active file is absent, whatever
\* the state file holds, and else, the file's stat succeeding, names the
\* recorded activeConfigName, or 'wg0.conf' when none is recorded.
C33_StateWrittenByActivationOnly ==
  [][/\ StateFile(disk') # StateFile(disk)
          => \E r \in ActIds :
               /\ act[r].pc = "write"
               /\ act'[r].pc # "write"
               /\ disk[wg0Path(env.wireguardDir)].content
                    = disk[act[r].body.sourcePath].content
     /\ (info' # info /\ env.wireguardDir # Null)
          => /\ StateFile(disk') = StateFile(disk)
             /\ IF ~exists(disk, wg0Path(env.wireguardDir))
                THEN info' = [status |-> 200,
                              body |-> [success |-> FALSE, reason |-> "not_found"]]
                ELSE \/ info' = [status |-> 200,
                                 body |-> [success |-> TRUE,
                                           name |-> RecordedName(disk)]]
                     \/ info'.status = 500]_vars

\* C33 witness: with a state recorded and no active file, the answer is
\* not_found.
C33_Witness ==
  /\ info = [status |-> 200, body |-> [success |-> FALSE, reason |-> "not_found"]]
  /\ env.wireguardDir # Null
  /\ ~exists(disk, wg0Path(env.wireguardDir))
  /\ RecordedName(disk) = JpConf

\* C33 witness: the name recorded by an activation is reported.
C33_WitnessName ==
  /\ info = [status |-> 200, body |-> [success |-> TRUE, name |-> FrConf]]
  /\ \E r \in ActIds : Succeeded(act[r])
  /\ RecordedName(disk) = FrConf

----------------------------------------------------------------------------
(* C34 *)

\* C34: when two activations of different sources have both been answered with
\* success, the recorded activeConfigName is the base name of the source whose
\* bytes the active slot holds.
C34_NameMatchesSlot ==
  (/\ \A r \in ConcIds : Succeeded(act[r])
   /\ act[1].body.sourcePath # act[2].body.sourcePath)
    => \E r \in ConcIds :
         /\ disk[wg0Path(env.wireguardDir)].content
              = disk[act[r].body.sourcePath].content
         /\ RecordedName(disk) = pathBasename(act[r].body.sourcePath)

----------------------------------------------------------------------------
(* C35 *)

\* authenticate returns before the verification: no such account, an account
\* with no hash, or one whose lock is active
ReturnsUnverified(data, username, t) ==
  \/ username \notin DOMAIN data
  \/ data[username].passwordHash = Null
  \/ /\ data[username].lockedUntil # Null
     /\ t < data[username].lockedUntil[1]

\* C35: a login for an unknown username, for an account with no hash or for an
\* account whose lock is active leaves the persisted store as it was, so an
\* attempt on a locked account changes neither its failedAttempts nor its
\* lockedUntil; a login changes the store only past the verification.
C35_NoWriteBeforeVerify ==
  [][\A username \in LoginNames, password \in Passwords :
       Login(username, password) =>
         /\ ReturnsUnverified(store, username, now) => store' = store
         /\ store' # store => ~ReturnsUnverified(store, username, now)]_vars

\* C35 witness: a login on a locked account with failed attempts on record was
\* refused as locked, and the record is as it was loaded.
C35_Witness ==
  /\ resp.path = "/api/auth/login"
  /\ resp.status = 401
  /\ resp.body = [success |-> FALSE, locked |-> TRUE]
  /\ resp.loaded # <<>>
  /\ resp.loaded[1].failedAttempts > 0
  /\ resp.input[1] \in DOMAIN store
  /\ store[resp.input[1]] = resp.loaded[1]

----------------------------------------------------------------------------
(* C36 *)

\* the record holds a number of failed attempts from 0 to maxAttempts - 1
CountsInRange(user) ==
  /\ "failedAttempts" \in DOMAIN user
  /\ Len(user.failedAttempts) = 1
  /\ user.failedAttempts[1] \in 0..(MaxAttempts - 1)

\* C36, the counter: a record provisioned with failedAttempts a number from 0
\* to maxAttempts - 1 holds such a number in every persisted state.
C36_CounterInRange ==
  CountsInRange(call.provisioned) => CountsInRange(store[AdminUsername])

\* C36: the counter stays in range, and a record provisioned without a
\* failedAttempts field, and with no lock, has a lock set once maxAttempts wrong
\* passwords in a row have been verified against it.
C36_RangeAndLockWithoutField ==
  /\ C36_CounterInRange
  /\ (/\ "failedAttempts" \notin DOMAIN call.provisioned
      /\ call.provisioned.lockedUntil = Null
      /\ ~call.reset
      /\ call.wrong >= MaxAttempts)
       => store[AdminUsername].lockedUntil # Null

----------------------------------------------------------------------------
(* C37 *)

\* a changePassword call that has set the new hash on the data it loaded
Changed(s) ==
  /\ s.kind = "changePassword"
  /\ s.pc \in {"save", "done"}
  /\ ~s.threw

\* C37: the data a changePassword call saves differs from the data it loaded in
\* the passwordHash and the mustChangePassword of the named account only: its
\* failedAttempts and lockedUntil and the records of the other accounts are as
\* loaded, so an account loaded locked is saved locked.
C37_ChangePasswordFrame ==
  \A c \in CallIds :
    Changed(call.slots[c]) =>
      LET s == call.slots[c] IN
      /\ DOMAIN s.data = DOMAIN s.loaded
      /\ \A u \in DOMAIN s.loaded \ {s.username} : s.data[u] = s.loaded[u]
      /\ s.data[s.username].passwordHash = argon2Hash(s.password)
      /\ s.data[s.username].mustChangePassword = FALSE
      /\ s.data[s.username].failedAttempts = s.loaded[s.username].failedAttempts
      /\ s.data[s.username].lockedUntil = s.loaded[s.username].lockedUntil
      /\ isLocked(s.loaded[s.username], now) => isLocked(s.data[s.username], now)

\* C37 witness: the password of a locked account with a failed attempt on
\* record was changed and saved; the account is locked as before.
C37_Witness ==
  \E c \in CallIds :
    /\ Changed(call.slots[c])
    /\ call.slots[c].pc = "done"
    /\ isLocked(call.slots[c].loaded[call.slots[c].username], now)
    /\ call.slots[c].loaded[call.slots[c].username].failedAttempts = 1
    /\ store[call.slots[c].username].passwordHash = argon2Hash(GoodPassword)
    /\ store[call.slots[c].username].failedAttempts = 1
    /\ isLocked(store[call.slots[c].username], now)

----------------------------------------------------------------------------
(* C38 *)

\* C38: a change-password request answered with the redirect has changed the
\* hash and the flag of the account of the session's user and nothing else of
\* the store, whatever username its body carries, has cleared the session's
\* mustChangePassword and has kept the session's user; a request answered
\* otherwise leaves the session and the store as they were.
C38_ChangesSessionAccount ==
  [][\A body \in ChangeBodies :
       ChangePasswordRequest(body) =>
         IF resp'.status = 302
         THEN /\ session.user \in DOMAIN store
              /\ store' = [store EXCEPT
                             ![session.user].passwordHash = argon2Hash(body.newPassword),
                             ![session.user].mustChangePassword = FALSE]
              /\ session'.user = session.user
              /\ session'.mustChangePassword = FALSE
         ELSE /\ resp'.status \in {400, 401}
              /\ session' = session
              /\ store' = store]_vars

\* C38 witness: the operator's session changed the operator's password; the
\* admin's record still has the hash of the default password.
C38_Witness ==
  /\ resp.path = "/api/auth/change-password"
  /\ resp.status = 302
  /\ resp.sess = [user |-> OperatorUsername, mustChangePassword |-> TRUE]
  /\ session = [user |-> OperatorUsername, mustChangePassword |-> FALSE]
  /\ store[OperatorUsername].passwordHash = argon2Hash(GoodPassword)
  /\ store[AdminUsername].passwordHash = argon2Hash(DefaultPassword)
  /\ store[AdminUsername].mustChangePassword

====
